---------------------------- MODULE Spec2Model ----------------------------
(***************************************************************************)
(* Conversion between RisingWave arrays and Apache Arrow arrays            *)
(* (src/common/src/array/arrow/arrow_impl.rs).                             *)
(*                                                                         *)
(* The conversions are pure functions; they are modelled as operators and  *)
(* exercised by small call sequences (encode, then decode) whose inputs    *)
(* are drawn from bounded sets in the initial states.                      *)
(*                                                                         *)
(* TLC integers are 32 bits wide, so the fixed-width integers of the code  *)
(* are modelled at reduced widths (I32_BITS, I64_BITS): every mask, shift  *)
(* and wrap-around is computed from the width, exactly as the code does at *)
(* 32, 64 and 128 bits.                                                    *)
(***************************************************************************)
EXTENDS Integers, Sequences, FiniteSets, TLC

VARIABLES
    debug_build,  \* the build profile: overflow checks and debug assertions on
    pc,           \* position in the call sequence: "start", "encoded", "decoded"
    input,        \* what the caller hands to the first call
    encoded,      \* the result of the encoding call (or a given Arrow value)
    decoded,      \* the result of the decoding call
    stack         \* the chunks of the calls of to_record_batch in progress

vars == <<debug_build, pc, input, encoded, decoded, stack>>

-----------------------------------------------------------------------------
(* Bounds of the model *)

\* modelled width of i32 / u32
I32_BITS == 3
\* modelled width of i64 / u64
I64_BITS == 16
\* longest array / largest number of rows of a chunk
MaxRows == 2
\* largest number of columns of a chunk
MaxCols == 2
\* seconds on either side of the epoch that a sampled timestamp may lie
MaxSecs == 2
\* deepest nesting of to_record_batch calls the model follows
MaxDepth == 3

-----------------------------------------------------------------------------
(* Results of calls: Ok(v), Err(kind), or a panic (unwrap on None, overflow *)
(* check, debug assertion).                                                 *)

Ok(v) == [tag |-> "ok", val |-> v]
Err(kind) == [tag |-> "err", kind |-> kind]
Panic == [tag |-> "panic"]
NotRun == [tag |-> "none"]

IsOk(r) == r.tag = "ok"
IsErr(r) == r.tag = "err"

\* Option<T>: None is the empty sequence, Some(v) the one-element sequence
None == <<>>
Some(v) == <<v>>
IsSome(o) == Len(o) = 1

-----------------------------------------------------------------------------
(* Fixed-width integer arithmetic *)

RECURSIVE Pow2(_)
Pow2(n) == IF n = 0 THEN 1 ELSE 2 * Pow2(n - 1)

\* Rust's `/` and `%` on signed integers truncate toward zero
TruncDiv(a, b) == IF a >= 0 THEN a \div b ELSE -((-a) \div b)
TruncRem(a, b) == a - b * TruncDiv(a, b)

\* `x as uN`: the low N bits, read unsigned
AsUnsigned(x, bits) == x % Pow2(bits)
\* `x as iN`: the low N bits, read in two's complement
AsSigned(x, bits) ==
    LET u == x % Pow2(bits)
    IN  IF u >= Pow2(bits - 1) THEN u - Pow2(bits) ELSE u
\* `x >> n` on a signed integer (arithmetic shift)
Shr(x, n) == x \div Pow2(n)
\* `x << n` without loss (the callers mask first)
Shl(x, n) == x * Pow2(n)

I128_BITS == I32_BITS + I32_BITS + I64_BITS
I32_MIN == -Pow2(I32_BITS - 1)
I32_MAX == Pow2(I32_BITS - 1) - 1
I64_MIN == -Pow2(I64_BITS - 1)
I64_MAX == Pow2(I64_BITS - 1) - 1
FitsI64(x) == I64_MIN <= x /\ x <= I64_MAX


-----------------------------------------------------------------------------
(* Scalar codecs: impl FromIntoArrow for ... *)

\* microseconds per second, and nanoseconds per microsecond
MICROS_PER_SEC == 1000000
NANOS_PER_MICRO == 1000
\* NaiveDateTime::from_timestamp_opt and NaiveTime::from_num_seconds_from_midnight_opt
\* accept a nanosecond part below this limit (the second billion is a leap second)
NSECS_LIMIT == 2000000000
\* seconds of a day
SECS_PER_DAY == 86400
\* 1970-01-01 as a day count from 0001-01-01 (NaiveDate's day 1)
UNIX_EPOCH_DAY_CE == 719163

\* impl FromIntoArrow for Serial: value.into() in both directions
Serial_from_arrow(value) == [serial |-> value]
Serial_into_arrow(self) == self.serial

\* impl FromIntoArrow for F32 / F64: the OrderedFloat wrapper is put on and taken off
F32_from_arrow(value) == [float |-> value]
F32_into_arrow(self) == self.float
F64_from_arrow(value) == [float |-> value]
F64_into_arrow(self) == self.float

\* impl FromIntoArrow for Date: a NaiveDate (its day count from 0001-01-01)
\* against the day count from 1970-01-01
Date_from_arrow(value) == [days_ce |-> value + UNIX_EPOCH_DAY_CE]
Date_into_arrow(self) == self.days_ce - UNIX_EPOCH_DAY_CE

\* `n as u32` handed to chrono as the nanosecond part: a negative n in (-2^31, 0)
\* wraps to 2^32 + n >= 2^31, which is over NSECS_LIMIT, so the part is accepted
\* exactly when n is non-negative and below the limit
NsecsAccepted(n) == 0 <= n /\ n < NSECS_LIMIT

\* impl FromIntoArrow for Time: a NaiveTime is (seconds of the day, nanoseconds)
Time_from_arrow(value) ==
    LET secs == TruncDiv(value, MICROS_PER_SEC)
        nano == TruncRem(value, MICROS_PER_SEC) * NANOS_PER_MICRO
    IN  \* secs is cast to u32: a negative count wraps above SECS_PER_DAY
        IF 0 <= secs /\ secs < SECS_PER_DAY /\ NsecsAccepted(nano)
        THEN Ok([secs |-> secs, frac |-> nano])
        ELSE Panic  \* unwrap() on None
\* a variant that counts whole seconds only: num_seconds() * 1_000_000
Time_into_arrow_whole_seconds(self) == self.secs * MICROS_PER_SEC

Time_into_arrow(self) ==
    self.secs * MICROS_PER_SEC + TruncDiv(self.frac, NANOS_PER_MICRO)

\* impl FromIntoArrow for Timestamp: a NaiveDateTime is (seconds since the epoch,
\* rounded down, and the nanoseconds 0 .. 10^9 - 1 after that second)
Timestamp_from_arrow(value) ==
    LET secs == TruncDiv(value, MICROS_PER_SEC)
        nsecs == TruncRem(value, MICROS_PER_SEC) * NANOS_PER_MICRO
    IN  IF NsecsAccepted(nsecs)
        THEN Ok([secs |-> secs, nsecs |-> nsecs])
        ELSE Panic  \* unwrap() on None
Timestamp_into_arrow(self) ==
    \* signed_duration_since(epoch).num_microseconds()
    self.secs * MICROS_PER_SEC + TruncDiv(self.nsecs, NANOS_PER_MICRO)

\* impl FromIntoArrow for Timestamptz: from_micros / timestamp_micros
Timestamptz_from_arrow(value) == [micros |-> value]
Timestamptz_into_arrow(self) == self.micros

\* impl FromIntoArrow for Interval
Interval_from_arrow(value) ==
    LET months == AsSigned(value, I32_BITS)
        days == AsSigned(Shr(value, I32_BITS), I32_BITS)
        ns == AsSigned(Shr(value, I32_BITS + I32_BITS), I64_BITS)
    IN  [months |-> months, days |-> days, usecs |-> TruncDiv(ns, NANOS_PER_MICRO)]

\* self.usecs() * 1000 on i64: with overflow checks a product out of range
\* panics, without them it wraps
Interval_into_arrow(self) ==
    LET nanos == self.usecs * NANOS_PER_MICRO
        m == AsUnsigned(self.months, I32_BITS)
        d == Shl(AsUnsigned(self.days, I32_BITS), I32_BITS)
        n == Shl(AsUnsigned(nanos, I64_BITS), I32_BITS + I32_BITS)
    IN  IF debug_build /\ ~FitsI64(nanos)
        THEN Panic
        ELSE Ok(AsSigned(m + d + n, I128_BITS))

-----------------------------------------------------------------------------
(* The scalar types of the `@map` conversions and their codecs *)

MapTypes == {"Float32", "Float64", "Date", "Time", "Timestamp", "Timestamptz",
             "Interval", "Serial"}

\* <T as FromIntoArrow>::into_arrow(v), as a result
into_arrow(ty, v) ==
    CASE ty = "Serial" -> Ok(Serial_into_arrow(v))
      [] ty = "Float32" -> Ok(F32_into_arrow(v))
      [] ty = "Float64" -> Ok(F64_into_arrow(v))
      [] ty = "Date" -> Ok(Date_into_arrow(v))
      [] ty = "Time" -> Ok(Time_into_arrow(v))
      [] ty = "Timestamp" -> Ok(Timestamp_into_arrow(v))
      [] ty = "Timestamptz" -> Ok(Timestamptz_into_arrow(v))
      [] ty = "Interval" -> Interval_into_arrow(v)

\* <T as FromIntoArrow>::from_arrow(v), as a result
from_arrow(ty, v) ==
    CASE ty = "Serial" -> Ok(Serial_from_arrow(v))
      [] ty = "Float32" -> Ok(F32_from_arrow(v))
      [] ty = "Float64" -> Ok(F64_from_arrow(v))
      [] ty = "Date" -> Ok(Date_from_arrow(v))
      [] ty = "Time" -> Time_from_arrow(v)
      [] ty = "Timestamp" -> Timestamp_from_arrow(v)
      [] ty = "Timestamptz" -> Ok(Timestamptz_from_arrow(v))
      [] ty = "Interval" -> Ok(Interval_from_arrow(v))

-----------------------------------------------------------------------------
(* Arrow data types and fields (arrow_schema::DataType, arrow_schema::Field) *)

\* Decimal256Type::DATA_TYPE is Decimal256(DECIMAL256_MAX_PRECISION, DECIMAL_DEFAULT_SCALE)
DECIMAL256_MAX_PRECISION == 76
DECIMAL_DEFAULT_SCALE == 10

\* a data type: `unit` matters for Time64 / Timestamp / Interval, `tz` for
\* Timestamp, precision and scale for the decimals, `fields` for List / Struct
ArrowType(id) ==
    [id |-> id, unit |-> "", tz |-> None, precision |-> 0, scale |-> 0, fields |-> <<>>]
ArrowTime64(unit) == [ArrowType("Time64") EXCEPT !.unit = unit]
ArrowTimestamp(unit, tz) == [ArrowType("Timestamp") EXCEPT !.unit = unit, !.tz = tz]
ArrowInterval(unit) == [ArrowType("Interval") EXCEPT !.unit = unit]
ArrowDecimal(id, precision, scale) ==
    [ArrowType(id) EXCEPT !.precision = precision, !.scale = scale]
ArrowList(field) == [ArrowType("List") EXCEPT !.fields = <<field>>]
ArrowStruct(fields) == [ArrowType("Struct") EXCEPT !.fields = fields]

\* the metadata key of an extension type, and the timezone with_timezone_utc() sets
EXTENSION_KEY == "ARROW:extension:name"
UTC == "+00:00"

\* Field::new(name, data_type, nullable); `ext` is metadata().get(EXTENSION_KEY)
Field(name, data_type, nullable) ==
    [name |-> name, data_type |-> data_type, nullable |-> nullable, ext |-> None]
WithExtension(field, type_name) == [field EXCEPT !.ext = Some(type_name)]

-----------------------------------------------------------------------------
(* Arrays. A RisingWave array is [ty, data], an Arrow array [data_type, data]; *)
(* data is the sequence of Option values, None being a null slot.             *)

Array(ty, data) == [ty |-> ty, data |-> data]
ArrowArray(data_type, data) == [data_type |-> data_type, data |-> data]

\* the element-wise image of a sequence of Option values under a fallible f:
\* a panic in any element is a panic of the whole conversion
MapSome(data, f(_)) ==
    LET r == [i \in 1..Len(data) |-> IF IsSome(data[i]) THEN f(data[i][1]) ELSE Ok(0)]
    IN  IF \E i \in 1..Len(data) : r[i].tag = "panic" THEN Panic
        ELSE IF \E i \in 1..Len(data) : r[i].tag = "err"
             THEN r[CHOOSE i \in 1..Len(data) :
                        /\ r[i].tag = "err"
                        /\ \A j \in 1..(i - 1) : r[j].tag # "err"]
        ELSE Ok([i \in 1..Len(data) |->
                    IF IsSome(data[i]) THEN Some(r[i].val) ELSE None])

\* macro converts!, plain form: array.iter().collect()
converts_iter_collect(data) == data

\* macro converts!, @map form, From<&$ArrayType> for $ArrowType:
\* array.iter().map(|o| o.map(|v| v.into_arrow())).collect()
converts_map_into_arrow(ty, data) == MapSome(data, LAMBDA v : into_arrow(ty, v))

\* a variant that skips the null slots instead of keeping them:
\* array.iter().flatten().map(T::from_arrow).map(Some).collect()
converts_map_from_arrow_flatten(ty, data) ==
    MapSome(SelectSeq(data, IsSome), LAMBDA v : from_arrow(ty, v))

\* macro converts!, @map form, From<&$ArrowType> for $ArrayType:
\* array.iter().map(|o| o.map(|v| T::from_arrow(v))).collect()
converts_map_from_arrow(ty, data) == MapSome(data, LAMBDA v : from_arrow(ty, v))

\* the invocations converts!($ArrayType, $ArrowType [, @map])
ConvertsPairs ==
    << [ty |-> "Bool", arrow |-> ArrowType("Boolean"), map |-> FALSE],
       [ty |-> "Int16", arrow |-> ArrowType("Int16"), map |-> FALSE],
       [ty |-> "Int32", arrow |-> ArrowType("Int32"), map |-> FALSE],
       [ty |-> "Int64", arrow |-> ArrowType("Int64"), map |-> FALSE],
       [ty |-> "Float32", arrow |-> ArrowType("Float32"), map |-> TRUE],
       [ty |-> "Float64", arrow |-> ArrowType("Float64"), map |-> TRUE],
       [ty |-> "Bytea", arrow |-> ArrowType("Binary"), map |-> FALSE],
       [ty |-> "Bytea", arrow |-> ArrowType("LargeBinary"), map |-> FALSE],
       [ty |-> "Utf8", arrow |-> ArrowType("Utf8"), map |-> FALSE],
       [ty |-> "Utf8", arrow |-> ArrowType("LargeUtf8"), map |-> FALSE],
       [ty |-> "Date", arrow |-> ArrowType("Date32"), map |-> TRUE],
       [ty |-> "Time", arrow |-> ArrowTime64("us"), map |-> TRUE],
       [ty |-> "Timestamp", arrow |-> ArrowTimestamp("us", None), map |-> TRUE],
       [ty |-> "Timestamptz", arrow |-> ArrowTimestamp("us", None), map |-> TRUE],
       [ty |-> "Interval", arrow |-> ArrowInterval("MonthDayNano"), map |-> TRUE],
       [ty |-> "Serial", arrow |-> ArrowType("Int64"), map |-> TRUE] >>

\* <$ArrowType>::from(&array) as generated by converts!
converts_to_arrow(pair, array) ==
    IF pair.map
    THEN LET r == converts_map_into_arrow(pair.ty, array.data)
         IN  IF IsOk(r) THEN Ok(ArrowArray(pair.arrow, r.val)) ELSE r
    ELSE Ok(ArrowArray(pair.arrow, converts_iter_collect(array.data)))

\* <$ArrayType>::from(&arrow) as generated by converts!
converts_from_arrow(pair, arrow) ==
    IF pair.map
    THEN LET r == converts_map_from_arrow(pair.ty, arrow.data)
         IN  IF IsOk(r) THEN Ok(Array(pair.ty, r.val)) ELSE r
    ELSE Ok(Array(pair.ty, converts_iter_collect(arrow.data)))

-----------------------------------------------------------------------------
(* Text. A string is the sequence of its characters. *)

DigitChars == <<"0", "1", "2", "3", "4", "5", "6", "7", "8", "9">>
IsDigit(c) == \E d \in 1..10 : DigitChars[d] = c
DigitValue(c) == (CHOOSE d \in 1..10 : DigitChars[d] = c) - 1

\* the decimal digits of n >= 0
RECURSIVE Digits(_)
Digits(n) ==
    IF n < 10 THEN <<DigitChars[n + 1]>>
    ELSE Digits(n \div 10) \o <<DigitChars[(n % 10) + 1]>>

\* the number a non-empty sequence of digits denotes
RECURSIVE DigitsValue(_)
DigitsValue(t) ==
    IF Len(t) = 0 THEN 0
    ELSE DigitsValue(SubSeq(t, 1, Len(t) - 1)) * 10 + DigitValue(t[Len(t)])

Zeros(n) == [i \in 1..n |-> "0"]

-----------------------------------------------------------------------------
(* Decimal: Display and FromStr of crate::types::Decimal.                    *)
(* A Decimal is NaN, PositiveInf, NegativeInf or Normalized(mantissa, scale), *)
(* the value mantissa * 10^(-scale).                                          *)

DecimalNaN == [kind |-> "NaN", mantissa |-> 0, scale |-> 0]
DecimalPositiveInf == [kind |-> "PositiveInf", mantissa |-> 0, scale |-> 0]
DecimalNegativeInf == [kind |-> "NegativeInf", mantissa |-> 0, scale |-> 0]
DecimalNormalized(mantissa, scale) ==
    [kind |-> "Normalized", mantissa |-> mantissa, scale |-> scale]

NaNText == <<"N", "a", "N">>
InfinityText == <<"I", "n", "f", "i", "n", "i", "t", "y">>
NegInfinityText == <<"-">> \o InfinityText

\* the numeral of mantissa * 10^(-scale): sign, integer digits and, when
\* scale > 0, a point and exactly `scale` fraction digits
NumeralText(mantissa, scale) ==
    LET abs == IF mantissa < 0 THEN -mantissa ELSE mantissa
        rep == Digits(abs)
        padded == IF Len(rep) > scale THEN rep ELSE Zeros(scale + 1 - Len(rep)) \o rep
        int == SubSeq(padded, 1, Len(padded) - scale)
        frac == SubSeq(padded, Len(padded) - scale + 1, Len(padded))
        sign == IF mantissa < 0 THEN <<"-">> ELSE <<>>
    IN  sign \o int \o (IF scale > 0 THEN <<".">> \o frac ELSE <<>>)

\* d.to_string()
Decimal_to_string(d) ==
    CASE d.kind = "NaN" -> NaNText
      [] d.kind = "PositiveInf" -> InfinityText
      [] d.kind = "NegativeInf" -> NegInfinityText
      [] d.kind = "Normalized" -> NumeralText(d.mantissa, d.scale)

\* the numerals FromStr accepts: an optional sign, digits, optionally a point
\* followed by digits
ParseNumeral(t) ==
    LET signed == Len(t) > 0 /\ t[1] \in {"-", "+"}
        body == IF signed THEN SubSeq(t, 2, Len(t)) ELSE t
        points == {k \in 1..Len(body) : body[k] = "."}
        point == IF points = {} THEN Len(body) + 1 ELSE CHOOSE k \in points : TRUE
        int == SubSeq(body, 1, point - 1)
        frac == SubSeq(body, point + 1, Len(body))
        digits == int \o frac
        value == DigitsValue(digits)
    IN  IF /\ Cardinality(points) <= 1
           /\ Len(int) > 0
           /\ points # {} => Len(frac) > 0
           /\ \A k \in 1..Len(digits) : IsDigit(digits[k])
        THEN Ok(DecimalNormalized(IF signed /\ t[1] = "-" THEN -value ELSE value,
                                  Len(frac)))
        ELSE Err("parse")

\* s.parse::<Decimal>()
Decimal_from_str(t) ==
    CASE t \in {NaNText, <<"n", "a", "n">>} -> Ok(DecimalNaN)
      [] t \in {InfinityText, <<"i", "n", "f", "i", "n", "i", "t", "y">>,
                <<"i", "n", "f">>, <<"+", "i", "n", "f">>} -> Ok(DecimalPositiveInf)
      [] t \in {NegInfinityText, <<"-", "i", "n", "f", "i", "n", "i", "t", "y">>,
                <<"-", "i", "n", "f">>} -> Ok(DecimalNegativeInf)
      [] OTHER -> ParseNumeral(t)

\* the UTF-8 bytes of a string, and std::str::from_utf8: a byte is modelled by
\* the character it encodes, and the byte 0xFF, which no UTF-8 text contains,
\* by "\xFF"
InvalidByte == "\\xFF"
as_bytes(t) == t
from_utf8(bytes) ==
    IF \E k \in 1..Len(bytes) : bytes[k] = InvalidByte THEN Err("utf8") ELSE Ok(bytes)

\* a variant that renders a null slot as the empty string
DecimalArray_to_StringArray_null_as_empty(array) ==
    ArrowArray(ArrowType("Utf8"),
               [i \in 1..Len(array.data) |->
                   IF IsSome(array.data[i])
                   THEN Some(Decimal_to_string(array.data[i][1]))
                   ELSE Some(<<>>)])

\* impl From<&DecimalArray> for arrow_array::StringArray
DecimalArray_to_StringArray(array) ==
    ArrowArray(ArrowType("Utf8"),
               [i \in 1..Len(array.data) |->
                   IF IsSome(array.data[i])
                   THEN Some(Decimal_to_string(array.data[i][1]))
                   ELSE None])

\* impl From<&DecimalArray> for arrow_array::LargeBinaryArray
DecimalArray_to_LargeBinaryArray(array) ==
    ArrowArray(ArrowType("LargeBinary"),
               [i \in 1..Len(array.data) |->
                   IF IsSome(array.data[i])
                   THEN Some(as_bytes(Decimal_to_string(array.data[i][1])))
                   ELSE None])

\* impl TryFrom<&arrow_array::StringArray> for DecimalArray
DecimalArray_try_from_StringArray(arrow) ==
    LET r == MapSome(arrow.data,
                     LAMBDA t : LET d == Decimal_from_str(t)
                                IN  IF IsOk(d) THEN d ELSE Err("invalid decimal"))
    IN  IF IsOk(r) THEN Ok(Array("Decimal", r.val)) ELSE r

\* rust_decimal: a mantissa of 96 bits, three 32-bit words, and a scale of at
\* most 28
DECIMAL_MANTISSA_BITS == I32_BITS + I32_BITS + I32_BITS
DECIMAL_MAX_SCALE == 28

\* rust_decimal::Decimal::try_from_i128_with_scale
try_from_i128_with_scale(num, scale) ==
    IF scale > DECIMAL_MAX_SCALE THEN Err("internal")
    ELSE IF num > Pow2(DECIMAL_MANTISSA_BITS) - 1 \/ num < -(Pow2(DECIMAL_MANTISSA_BITS) - 1)
         THEN Err("internal")
    ELSE Ok(DecimalNormalized(num, scale))

I128_MIN == -Pow2(I128_BITS - 1)
I128_MAX == Pow2(I128_BITS - 1) - 1

\* a variant without the check of the scale
DecimalArray_try_from_Decimal128Array_any_scale(array) ==
    LET r == MapSome(array.data,
                     LAMBDA value :
                         CASE value = I128_MIN + 1 -> Ok(DecimalNaN)
                           [] value = I128_MAX -> Ok(DecimalPositiveInf)
                           [] value = I128_MIN -> Ok(DecimalNegativeInf)
                           [] OTHER -> Ok(DecimalNormalized(value, array.data_type.scale)))
    IN  IF IsOk(r) THEN Ok(Array("Decimal", r.val)) ELSE r

\* impl TryFrom<&arrow_array::Decimal128Array> for DecimalArray
DecimalArray_try_from_Decimal128Array(array) ==
    IF array.data_type.scale < 0 THEN Err("support negative scale for arrow decimal")
    ELSE LET r == MapSome(array.data,
                          LAMBDA value :
                              CASE value = I128_MIN + 1 -> Ok(DecimalNaN)
                                [] value = I128_MAX -> Ok(DecimalPositiveInf)
                                [] value = I128_MIN -> Ok(DecimalNegativeInf)
                                [] OTHER ->
                                      try_from_i128_with_scale(value,
                                                               array.data_type.scale))
         IN  IF IsOk(r) THEN Ok(Array("Decimal", r.val)) ELSE r

\* impl TryFrom<&arrow_array::LargeBinaryArray> for DecimalArray
DecimalArray_try_from_LargeBinaryArray(arrow) ==
    LET r == MapSome(arrow.data,
                     LAMBDA b : LET t == from_utf8(b)
                                    d == IF IsOk(t) THEN Decimal_from_str(t.val) ELSE t
                                IN  IF IsOk(d) THEN d ELSE Err("invalid decimal"))
    IN  IF IsOk(r) THEN Ok(Array("Decimal", r.val)) ELSE r

-----------------------------------------------------------------------------
(* RisingWave data types (crate::types::DataType) and the type mapping *)

\* a scalar type
DataType(t) == [t |-> t, args |-> <<>>]
\* DataType::List(elem)
DataTypeList(elem) == [t |-> "List", args |-> <<elem>>]
\* DataType::Struct(fields): the (name, type) pairs in order
DataTypeStruct(fields) == [t |-> "Struct", args |-> fields]
StructField(name, ty) == [name |-> name, ty |-> ty]

\* the extension type names of Decimal and Jsonb
DECIMAL_EXTENSION == "arrowudf.decimal"
JSON_EXTENSION == "arrowudf.json"

\* a variant that collects the Ok elements and leaves the others out
TryCollect_skip_errors(rs) ==
    LET oks == SelectSeq(rs, IsOk)
    IN  Ok([i \in 1..Len(oks) |-> oks[i].val])

\* a variant that goes through every element and keeps the last failure
TryCollect_last_error(rs) ==
    IF \E i \in 1..Len(rs) : ~IsOk(rs[i])
    THEN rs[CHOOSE i \in 1..Len(rs) :
                /\ ~IsOk(rs[i])
                /\ \A j \in (i + 1)..Len(rs) : IsOk(rs[j])]
    ELSE Ok([i \in 1..Len(rs) |-> rs[i].val])

\* Iterator::try_collect over a sequence of results, left to right: the first
\* element that is not Ok ends it
TryCollect(rs) ==
    IF \E i \in 1..Len(rs) : ~IsOk(rs[i])
    THEN rs[CHOOSE i \in 1..Len(rs) :
                /\ ~IsOk(rs[i])
                /\ \A j \in 1..(i - 1) : IsOk(rs[j])]
    ELSE Ok([i \in 1..Len(rs) |-> rs[i].val])

\* a variant that leaves the extension name off the Decimal field
decimal_type_to_arrow_untagged(name) == Field(name, ArrowType("Utf8"), TRUE)

\* ToArrow::decimal_type_to_arrow
decimal_type_to_arrow(name) ==
    WithExtension(Field(name, ArrowType("Utf8"), TRUE), DECIMAL_EXTENSION)

\* ToArrow::jsonb_type_to_arrow
jsonb_type_to_arrow(name) ==
    WithExtension(Field(name, ArrowType("Utf8"), TRUE), JSON_EXTENSION)

\* ToArrow::int256_type_to_arrow
int256_type_to_arrow == ArrowDecimal("Decimal256", DECIMAL256_MAX_PRECISION, 0)

\* ToArrow::timestamptz_type_to_arrow
timestamptz_type_to_arrow == ArrowTimestamp("us", Some(UTC))

\* ToArrow::to_arrow_field, with list_type_to_arrow and struct_type_to_arrow
RECURSIVE to_arrow_field(_, _)
to_arrow_field(name, value) ==
    CASE value.t = "Decimal" -> Ok(decimal_type_to_arrow(name))
      [] value.t = "Jsonb" -> Ok(jsonb_type_to_arrow(name))
      [] value.t = "Struct" ->
            LET fs == TryCollect([k \in 1..Len(value.args) |->
                                     to_arrow_field(value.args[k].name, value.args[k].ty)])
            IN  IF IsOk(fs) THEN Ok(Field(name, ArrowStruct(fs.val), TRUE)) ELSE fs
      [] value.t = "List" ->
            LET f == to_arrow_field("item", value.args[1])
            IN  IF IsOk(f) THEN Ok(Field(name, ArrowList(f.val), TRUE)) ELSE f
      [] OTHER ->
            Ok(Field(name,
                     CASE value.t = "Boolean" -> ArrowType("Boolean")
                       [] value.t = "Int16" -> ArrowType("Int16")
                       [] value.t = "Int32" -> ArrowType("Int32")
                       [] value.t = "Int64" -> ArrowType("Int64")
                       [] value.t = "Int256" -> int256_type_to_arrow
                       [] value.t = "Float32" -> ArrowType("Float32")
                       [] value.t = "Float64" -> ArrowType("Float64")
                       [] value.t = "Date" -> ArrowType("Date32")
                       [] value.t = "Time" -> ArrowTime64("us")
                       [] value.t = "Timestamp" -> ArrowTimestamp("us", None)
                       [] value.t = "Timestamptz" -> timestamptz_type_to_arrow
                       [] value.t = "Interval" -> ArrowInterval("MonthDayNano")
                       [] value.t = "Varchar" -> ArrowType("Utf8")
                       [] value.t = "Bytea" -> ArrowType("Binary")
                       [] value.t = "Serial" -> ArrowType("Int64"),
                     TRUE))

\* a variant that never finds an extension name in the metadata
extension_name_absent(field) == None

\* field.metadata().get("ARROW:extension:name")
extension_name(field) == field.ext

\* FromArrow::from_extension_type
from_extension_type(type_name, physical_type) ==
    CASE type_name = DECIMAL_EXTENSION /\ physical_type = ArrowType("Utf8") ->
            Ok(DataType("Decimal"))
      [] type_name = JSON_EXTENSION /\ physical_type = ArrowType("Utf8") ->
            Ok(DataType("Jsonb"))
      [] OTHER -> Err("unsupported extension type")

\* FromArrow::from_field, with from_fields, from_large_utf8 and from_large_binary
RECURSIVE from_field(_)
from_field(field) ==
    LET dt == field.data_type
    IN  IF IsSome(extension_name(field))
        THEN from_extension_type(extension_name(field)[1], dt)
        ELSE CASE dt.id = "Boolean" -> Ok(DataType("Boolean"))
               [] dt.id = "Int16" -> Ok(DataType("Int16"))
               [] dt.id = "Int32" -> Ok(DataType("Int32"))
               [] dt.id = "Int64" -> Ok(DataType("Int64"))
               [] dt.id = "Float32" -> Ok(DataType("Float32"))
               [] dt.id = "Float64" -> Ok(DataType("Float64"))
               [] dt.id = "Decimal128" -> Ok(DataType("Decimal"))
               [] dt.id = "Decimal256" -> Ok(DataType("Int256"))
               [] dt.id = "Date32" -> Ok(DataType("Date"))
               [] dt.id = "Time64" /\ dt.unit = "us" -> Ok(DataType("Time"))
               [] dt.id = "Timestamp" /\ dt.unit = "us" /\ ~IsSome(dt.tz) ->
                     Ok(DataType("Timestamp"))
               [] dt.id = "Timestamp" /\ dt.unit = "us" /\ IsSome(dt.tz) ->
                     Ok(DataType("Timestamptz"))
               [] dt.id = "Interval" /\ dt.unit = "MonthDayNano" ->
                     Ok(DataType("Interval"))
               [] dt.id = "Utf8" -> Ok(DataType("Varchar"))
               [] dt.id = "Binary" -> Ok(DataType("Bytea"))
               [] dt.id = "LargeUtf8" -> Ok(DataType("Varchar"))
               [] dt.id = "LargeBinary" -> Ok(DataType("Bytea"))
               [] dt.id = "List" ->
                     LET e == from_field(dt.fields[1])
                     IN  IF IsOk(e) THEN Ok(DataTypeList(e.val)) ELSE e
               [] dt.id = "Struct" ->
                     LET fs == TryCollect(
                                 [k \in 1..Len(dt.fields) |->
                                     LET e == from_field(dt.fields[k])
                                     IN  IF IsOk(e)
                                         THEN Ok(StructField(dt.fields[k].name, e.val))
                                         ELSE e])
                     IN  IF IsOk(fs) THEN Ok(DataTypeStruct(fs.val)) ELSE fs
               [] OTHER -> Err("unsupported arrow data type")

-----------------------------------------------------------------------------
(* Jsonb: Display and FromStr of JsonbVal / JsonbRef, for the scalar JSON    *)
(* values null, true, false and the non-negative integers, arrays of them    *)
(* and objects of one key.                                                   *)

JsonNull == [j |-> "null", v |-> 0]
JsonBool(b) == [j |-> "bool", v |-> IF b THEN 1 ELSE 0]
JsonNumber(n) == [j |-> "number", v |-> n]
JsonArray(items) == [j |-> "array", v |-> items]
JsonObject(key, value) == [j |-> "object", v |-> <<key, value>>]

NullText == <<"n", "u", "l", "l">>
TrueText == <<"t", "r", "u", "e">>
FalseText == <<"f", "a", "l", "s", "e">>

\* the text of a scalar JSON value
JsonScalarText(value) ==
    CASE value.j = "null" -> NullText
      [] value.j = "bool" -> IF value.v = 1 THEN TrueText ELSE FalseText
      [] value.j = "number" -> Digits(value.v)

\* the texts of a sequence joined by commas
RECURSIVE JoinComma(_)
JoinComma(texts) ==
    IF Len(texts) = 0 THEN <<>>
    ELSE IF Len(texts) = 1 THEN texts[1]
    ELSE texts[1] \o <<",">> \o JoinComma(Tail(texts))

\* format!("{}", jsonb): the minified text
Jsonb_to_string(value) ==
    CASE value.j = "array" ->
            <<"[">> \o JoinComma([k \in 1..Len(value.v) |-> JsonScalarText(value.v[k])])
                   \o <<"]">>
      [] value.j = "object" ->
            <<"{", "\"">> \o value.v[1] \o <<"\"", ":">> \o JsonScalarText(value.v[2])
                          \o <<"}">>
      [] OTHER -> JsonScalarText(value)

\* a scalar JSON value from its text
JsonScalarFromStr(t) ==
    CASE t = NullText -> Ok(JsonNull)
      [] t = TrueText -> Ok(JsonBool(TRUE))
      [] t = FalseText -> Ok(JsonBool(FALSE))
      [] Len(t) > 0 /\ (\A k \in 1..Len(t) : IsDigit(t[k])) /\ (Len(t) > 1 => t[1] # "0") ->
            Ok(JsonNumber(DigitsValue(t)))
      [] OTHER -> Err("parse")

\* the pieces of a text between its commas
RECURSIVE SplitComma(_)
SplitComma(t) ==
    IF \A k \in 1..Len(t) : t[k] # ","
    THEN <<t>>
    ELSE LET k == CHOOSE k \in 1..Len(t) :
                      t[k] = "," /\ \A m \in 1..(k - 1) : t[m] # ","
         IN  <<SubSeq(t, 1, k - 1)>> \o SplitComma(SubSeq(t, k + 1, Len(t)))

\* s.parse::<JsonbVal>()
Jsonb_from_str(t) ==
    CASE Len(t) >= 2 /\ t[1] = "[" /\ t[Len(t)] = "]" ->
            LET inner == SubSeq(t, 2, Len(t) - 1)
                parts == IF inner = <<>> THEN <<>> ELSE SplitComma(inner)
                items == [k \in 1..Len(parts) |-> JsonScalarFromStr(parts[k])]
            IN  IF \A k \in 1..Len(items) : IsOk(items[k])
                THEN Ok(JsonArray([k \in 1..Len(items) |-> items[k].val]))
                ELSE Err("parse")
      [] Len(t) >= 6 /\ t[1] = "{" /\ t[2] = "\"" /\ t[Len(t)] = "}" ->
            LET closes == {k \in 3..(Len(t) - 2) : t[k] = "\"" /\ t[k + 1] = ":"}
            IN  IF closes = {} THEN Err("parse")
                ELSE LET q == CHOOSE k \in closes : \A m \in closes : k <= m
                         value == JsonScalarFromStr(SubSeq(t, q + 2, Len(t) - 1))
                     IN  IF IsOk(value)
                         THEN Ok(JsonObject(SubSeq(t, 3, q - 1), value.val))
                         ELSE Err("parse")
      [] OTHER -> JsonScalarFromStr(t)

\* a variant that writes a null element as the text of JSON null:
\* None => builder.append_value("null")
JsonbArray_to_string_array_null_as_text(data_type, array) ==
    ArrowArray(data_type,
               [i \in 1..Len(array.data) |->
                   IF IsSome(array.data[i])
                   THEN Some(Jsonb_to_string(array.data[i][1]))
                   ELSE Some(NullText)])

\* impl From<&JsonbArray> for arrow_array::StringArray / LargeStringArray:
\* the text is written into the builder, append_value("") closes the slot
JsonbArray_to_string_array(data_type, array) ==
    ArrowArray(data_type,
               [i \in 1..Len(array.data) |->
                   IF IsSome(array.data[i])
                   THEN Some(Jsonb_to_string(array.data[i][1]) \o <<>>)
                   ELSE None])

\* impl TryFrom<&arrow_array::StringArray> / <&LargeStringArray> for JsonbArray
JsonbArray_try_from_string_array(arrow) ==
    LET r == MapSome(arrow.data,
                     LAMBDA t : LET v == Jsonb_from_str(t)
                                IN  IF IsOk(v) THEN v ELSE Err("invalid json"))
    IN  IF IsOk(r) THEN Ok(Array("Jsonb", r.val)) ELSE r

-----------------------------------------------------------------------------
(* Int256 against arrow_buffer::i256, through the big-endian bytes *)

\* modelled size of a 256-bit integer, in bytes
I256_BYTES == 2
BYTE_BITS == 8

\* to_be_bytes: the two's-complement bytes, most significant first
to_be_bytes(value) ==
    [k \in 1..I256_BYTES |->
        AsUnsigned(Shr(value, BYTE_BITS * (I256_BYTES - k)), BYTE_BITS)]

RECURSIVE be_unsigned(_)
be_unsigned(bytes) ==
    IF Len(bytes) = 0 THEN 0
    ELSE be_unsigned(SubSeq(bytes, 1, Len(bytes) - 1)) * Pow2(BYTE_BITS) + bytes[Len(bytes)]

\* a variant that reads the bytes as an unsigned number
from_be_bytes_unsigned(bytes) == be_unsigned(bytes)

\* from_be_bytes
from_be_bytes(bytes) == AsSigned(be_unsigned(bytes), BYTE_BITS * I256_BYTES)

\* impl From<Int256Ref<'_>> for arrow_buffer::i256
i256_from_Int256(val) == from_be_bytes(to_be_bytes(val))

\* impl From<arrow_buffer::i256> for Int256
Int256_from_i256(value) == from_be_bytes(to_be_bytes(value))

\* impl From<&Int256Array> for arrow_array::Decimal256Array: collect() builds
\* the array with Decimal256Type::DATA_TYPE
Int256Array_to_Decimal256Array(array) ==
    ArrowArray(ArrowDecimal("Decimal256", DECIMAL256_MAX_PRECISION, DECIMAL_DEFAULT_SCALE),
               [i \in 1..Len(array.data) |->
                   IF IsSome(array.data[i])
                   THEN Some(i256_from_Int256(array.data[i][1]))
                   ELSE None])

\* impl From<&arrow_array::Decimal256Array> for Int256Array
Int256Array_from_Decimal256Array(arrow) ==
    Array("Int256",
          [i \in 1..Len(arrow.data) |->
              IF IsSome(arrow.data[i])
              THEN Some(Int256_from_i256(arrow.data[i][1]))
              ELSE None])

-----------------------------------------------------------------------------
(* Nested arrays *)

\* RisingWave ListArray { bitmap, offsets, value } and StructArray { bitmap,
\* children, type_ }
ListArray(bitmap, offsets, value) ==
    [ty |-> "List", bitmap |-> bitmap, offsets |-> offsets, value |-> value]
StructArray(type_, children, bitmap) ==
    [ty |-> "Struct", type_ |-> type_, children |-> children, bitmap |-> bitmap]

\* Array::len
ArrayLen(array) ==
    IF array.ty \in {"List", "Struct"} THEN Len(array.bitmap) ELSE Len(array.data)

\* arrow_array::ListArray and arrow_array::StructArray; `nulls` is the
\* Option<NullBuffer>, an entry TRUE meaning valid
ArrowListArray(field, offsets, values, nulls) ==
    [data_type |-> ArrowList(field), offsets |-> offsets, values |-> values,
     nulls |-> nulls]
ArrowStructArray(fields, columns, nulls, len) ==
    [data_type |-> ArrowStruct(fields), columns |-> columns, nulls |-> nulls,
     len |-> len]

\* arrow_array::Array::len
ArrowLen(arrow) ==
    CASE arrow.data_type.id = "List" -> Len(arrow.offsets) - 1
      [] arrow.data_type.id = "Struct" -> arrow.len
      [] OTHER -> Len(arrow.data)

\* a variant in which a row of a StructArray is valid only when it is valid
\* in every child as well
ArrowIsValid_with_children(arrow, i) ==
    LET own(a) == IF a.data_type.id \in {"List", "Struct"}
                  THEN ~IsSome(a.nulls) \/ a.nulls[1][i]
                  ELSE IsSome(a.data[i])
    IN  /\ own(arrow)
        /\ arrow.data_type.id = "Struct" =>
               \A k \in 1..Len(arrow.columns) : own(arrow.columns[k])

\* arrow_array::Array::is_valid(i), rows counted from 1
ArrowIsValid(arrow, i) ==
    IF arrow.data_type.id \in {"List", "Struct"}
    THEN ~IsSome(arrow.nulls) \/ arrow.nulls[1][i]
    ELSE IsSome(arrow.data[i])

\* Bitmap::all
BitmapAll(bitmap) == \A i \in 1..Len(bitmap) : bitmap[i]

-----------------------------------------------------------------------------
(* arrow_cast::cast, for the pairs of types the conversions meet *)

RECURSIVE MulPow10(_, _)
MulPow10(v, k) == IF k = 0 THEN v ELSE MulPow10(v * 10, k - 1)

\* v divided by 10^k, rounded toward zero
TruncDivPow10(v, k) == TruncDiv(v, MulPow10(1, k))

\* a decimal moved from scale `from` to scale `to`: to a smaller scale the
\* value is divided by the power of ten and rounded half away from zero
Rescale(v, from, to) ==
    IF to >= from THEN MulPow10(v, to - from)
    ELSE LET q == TruncDivPow10(v, from - to - 1)
             last == TruncRem(q, 10)
         IN  TruncDiv(q, 10) + (IF last >= 5 THEN 1 ELSE IF last <= -5 THEN -1 ELSE 0)

\* the integer types, by width; a cast to a narrower one keeps the values
\* in range and nulls the others (CastOptions::default() is safe)
IntTypes == {"Int8", "Int16", "Int32", "Int64"}
TextTypes == {"Utf8", "LargeUtf8"}
BinaryTypes == {"Binary", "LargeBinary"}
FloatTypes == {"Float32", "Float64"}

\* a variant that hands the array back as it is
cast_skipped(array, to_type) == Ok(array)

cast(array, to_type) ==
    LET from == array.data_type
        same(ids) == from.id \in ids /\ to_type.id \in ids
    IN  CASE from = to_type -> Ok(array)
          [] same(TextTypes) \/ same(BinaryTypes) \/ same(FloatTypes) \/ same(IntTypes) ->
                Ok(ArrowArray(to_type, array.data))
          [] same({"Timestamp"}) /\ from.unit = to_type.unit ->
                Ok(ArrowArray(to_type, array.data))
          [] same({"Decimal256"}) ->
                Ok(ArrowArray(to_type,
                              [i \in 1..Len(array.data) |->
                                  IF IsSome(array.data[i])
                                  THEN Some(Rescale(array.data[i][1], from.scale,
                                                    to_type.scale))
                                  ELSE None]))
          [] OTHER -> Err("cast")

-----------------------------------------------------------------------------
(* ToArrow: arrays *)

\* crate::util::iter_util::ZipEqFast: zip_eq (a panic on unequal lengths) with
\* debug assertions, plain zip (the shorter length) without
ZipEqFastPanics(a, b) == debug_build /\ Len(a) # Len(b)
ZipLen(a, b) == IF Len(a) <= Len(b) THEN Len(a) ELSE Len(b)

\* a variant in which the large-offset string array converts to a BytesArray
ConvertsPair_large_as_bytes(ty, arrow_id) ==
    IF arrow_id = "LargeUtf8"
    THEN [ty |-> "Bytea", arrow |-> ArrowType("LargeUtf8"), map |-> FALSE]
    ELSE ConvertsPairs[CHOOSE k \in 1..Len(ConvertsPairs) :
                           ConvertsPairs[k].ty = ty /\ ConvertsPairs[k].arrow.id = arrow_id]

\* the invocation of converts! for an array type and an Arrow type
ConvertsPair(ty, arrow_id) ==
    ConvertsPairs[CHOOSE k \in 1..Len(ConvertsPairs) :
                      ConvertsPairs[k].ty = ty /\ ConvertsPairs[k].arrow.id = arrow_id]

\* ToArrow::timestamptz_to_arrow:
\* TimestampMicrosecondArray::from(array).with_timezone_utc()
timestamptz_to_arrow(array) ==
    LET r == converts_to_arrow(ConvertsPair("Timestamptz", "Timestamp"), array)
    IN  IF IsOk(r) THEN Ok(ArrowArray(ArrowTimestamp("us", Some(UTC)), r.val.data)) ELSE r

\* OffsetBuffer::new panics unless the offsets are non-negative and monotone;
\* ListArray::new panics unless the last offset is within the values and the
\* null buffer has one entry per row
ListArrayNewPanics(offsets, values_len, nulls) ==
    \/ Len(offsets) = 0
    \/ offsets[1] < 0
    \/ \E k \in 1..(Len(offsets) - 1) : offsets[k + 1] < offsets[k]
    \/ offsets[Len(offsets)] > values_len
    \/ IsSome(nulls) /\ Len(nulls[1]) # Len(offsets) - 1

\* ToArrow::to_array, with the per-type methods it dispatches to
\* (bool_to_arrow ... serial_to_arrow, list_to_arrow, struct_to_arrow)
RECURSIVE to_array(_, _)
to_array(data_type, array) ==
    LET list_to_arrow ==
            IF data_type.id # "List" THEN Err("Invalid list type")
            ELSE LET field == data_type.fields[1]
                     values == to_array(field.data_type, array.value)
                     offsets == [k \in 1..Len(array.offsets) |->
                                    AsSigned(array.offsets[k], I32_BITS)]
                     nulls == IF BitmapAll(array.bitmap) THEN None
                              ELSE Some(array.bitmap)
                 IN  IF ~IsOk(values) THEN values
                     ELSE IF ListArrayNewPanics(offsets, ArrowLen(values.val), nulls)
                          THEN Panic
                     ELSE Ok(ArrowListArray(field, offsets, values.val, nulls))
        struct_to_arrow ==
            IF data_type.id # "Struct" THEN Err("Invalid struct type")
            ELSE LET fields == data_type.fields
                     n == ZipLen(array.children, fields)
                     columns == TryCollect([k \in 1..n |->
                                    to_array(fields[k].data_type, array.children[k])])
                     len == Len(array.bitmap)
                 IN  IF ~IsOk(columns) THEN columns
                     \* zip_eq panics when one side ends before the other
                     ELSE IF ZipEqFastPanics(array.children, fields) THEN Panic
                     \* StructArray::new: one array per field, each of the
                     \* length of the null buffer
                     ELSE IF \/ Len(columns.val) # Len(fields)
                             \/ \E k \in 1..n : ArrowLen(columns.val[k]) # len
                             \/ n = 0 /\ len # 0
                          THEN Panic
                     ELSE Ok(ArrowStructArray(fields, columns.val, Some(array.bitmap), len))
        arrow_array ==
            CASE array.ty = "Bool" -> converts_to_arrow(ConvertsPair("Bool", "Boolean"), array)
              [] array.ty = "Int16" -> converts_to_arrow(ConvertsPair("Int16", "Int16"), array)
              [] array.ty = "Int32" -> converts_to_arrow(ConvertsPair("Int32", "Int32"), array)
              [] array.ty = "Int64" -> converts_to_arrow(ConvertsPair("Int64", "Int64"), array)
              [] array.ty = "Int256" -> Ok(Int256Array_to_Decimal256Array(array))
              [] array.ty = "Float32" ->
                    converts_to_arrow(ConvertsPair("Float32", "Float32"), array)
              [] array.ty = "Float64" ->
                    converts_to_arrow(ConvertsPair("Float64", "Float64"), array)
              [] array.ty = "Date" -> converts_to_arrow(ConvertsPair("Date", "Date32"), array)
              [] array.ty = "Time" -> converts_to_arrow(ConvertsPair("Time", "Time64"), array)
              [] array.ty = "Timestamp" ->
                    converts_to_arrow(ConvertsPair("Timestamp", "Timestamp"), array)
              [] array.ty = "Timestamptz" -> timestamptz_to_arrow(array)
              [] array.ty = "Interval" ->
                    converts_to_arrow(ConvertsPair("Interval", "Interval"), array)
              [] array.ty = "Utf8" -> converts_to_arrow(ConvertsPair("Utf8", "Utf8"), array)
              [] array.ty = "Bytea" -> converts_to_arrow(ConvertsPair("Bytea", "Binary"), array)
              [] array.ty = "Decimal" -> Ok(DecimalArray_to_StringArray(array))
              [] array.ty = "Jsonb" ->
                    Ok(JsonbArray_to_string_array(ArrowType("Utf8"), array))
              [] array.ty = "Serial" -> converts_to_arrow(ConvertsPair("Serial", "Int64"), array)
              [] array.ty = "List" -> list_to_arrow
              [] array.ty = "Struct" -> struct_to_arrow
    IN  IF ~IsOk(arrow_array) THEN arrow_array
        ELSE IF arrow_array.val.data_type # data_type
             THEN cast(arrow_array.val, data_type)
        ELSE arrow_array

-----------------------------------------------------------------------------
(* FromArrow: arrays *)

\* a variant that decodes a string array under a name it does not know as
\* plain text
from_extension_array_fallback(type_name, array) ==
    CASE type_name = DECIMAL_EXTENSION ->
            IF array.data_type.id # "Utf8" THEN Err("expected string array")
            ELSE DecimalArray_try_from_StringArray(array)
      [] type_name = JSON_EXTENSION ->
            IF array.data_type.id # "Utf8" THEN Err("expected string array")
            ELSE JsonbArray_try_from_string_array(array)
      [] OTHER ->
            IF array.data_type.id = "Utf8"
            THEN converts_from_arrow(ConvertsPair("Utf8", "Utf8"), array)
            ELSE Err("unsupported extension type")

\* a variant that unwraps the downcast to a string array
from_extension_array_unwrap(type_name, array) ==
    CASE type_name = DECIMAL_EXTENSION ->
            IF array.data_type.id # "Utf8" THEN Panic
            ELSE DecimalArray_try_from_StringArray(array)
      [] type_name = JSON_EXTENSION ->
            IF array.data_type.id # "Utf8" THEN Panic
            ELSE JsonbArray_try_from_string_array(array)
      [] OTHER -> Err("unsupported extension type")

\* FromArrow::from_extension_array
from_extension_array(type_name, array) ==
    CASE type_name = DECIMAL_EXTENSION ->
            IF array.data_type.id # "Utf8" THEN Err("expected string array")
            ELSE DecimalArray_try_from_StringArray(array)
      [] type_name = JSON_EXTENSION ->
            IF array.data_type.id # "Utf8" THEN Err("expected string array")
            ELSE JsonbArray_try_from_string_array(array)
      [] OTHER -> Err("unsupported extension type")

\* the result of a conversion that cannot fail
Infallible(array) == Ok(array)

\* FromArrow::from_array, with the per-type methods it dispatches to
\* (from_bool_array ... from_large_binary_array, from_list_array,
\* from_struct_array)
RECURSIVE from_array(_, _)
from_array(field, array) ==
    LET dt == array.data_type
        from_list_array ==
            LET value == from_array(dt.fields[1], array.values)
                bitmap == IF IsSome(array.nulls) THEN array.nulls[1]
                          ELSE [k \in 1..ArrowLen(array) |-> TRUE]
                offsets == [k \in 1..Len(array.offsets) |->
                               AsUnsigned(array.offsets[k], I32_BITS)]
            IN  IF IsOk(value) THEN Ok(ListArray(bitmap, offsets, value.val)) ELSE value
        from_struct_array ==
            LET fields == dt.fields
                type_ == from_field(Field("", ArrowStruct(fields), TRUE))
                n == ZipLen(array.columns, fields)
                children == TryCollect([k \in 1..n |->
                                from_array(fields[k], array.columns[k])])
                bitmap == [k \in 1..ArrowLen(array) |-> ArrowIsValid(array, k)]
            IN  IF ~IsOk(type_) THEN type_
                ELSE IF ~IsOk(children) THEN children
                ELSE IF ZipEqFastPanics(array.columns, fields) THEN Panic
                ELSE Ok(StructArray(type_.val, children.val, bitmap))
    IN  IF IsSome(extension_name(field))
        THEN from_extension_array(extension_name(field)[1], array)
        ELSE CASE dt.id = "Boolean" -> converts_from_arrow(ConvertsPair("Bool", "Boolean"), array)
               [] dt.id = "Int16" -> converts_from_arrow(ConvertsPair("Int16", "Int16"), array)
               [] dt.id = "Int32" -> converts_from_arrow(ConvertsPair("Int32", "Int32"), array)
               [] dt.id = "Int64" -> converts_from_arrow(ConvertsPair("Int64", "Int64"), array)
               [] dt.id = "Decimal256" -> Infallible(Int256Array_from_Decimal256Array(array))
               [] dt.id = "Float32" ->
                     converts_from_arrow(ConvertsPair("Float32", "Float32"), array)
               [] dt.id = "Float64" ->
                     converts_from_arrow(ConvertsPair("Float64", "Float64"), array)
               [] dt.id = "Date32" -> converts_from_arrow(ConvertsPair("Date", "Date32"), array)
               [] dt.id = "Time64" /\ dt.unit = "us" ->
                     converts_from_arrow(ConvertsPair("Time", "Time64"), array)
               [] dt.id = "Timestamp" /\ dt.unit = "us" ->
                     converts_from_arrow(ConvertsPair("Timestamp", "Timestamp"), array)
               [] dt.id = "Interval" /\ dt.unit = "MonthDayNano" ->
                     converts_from_arrow(ConvertsPair("Interval", "Interval"), array)
               [] dt.id = "Utf8" -> converts_from_arrow(ConvertsPair("Utf8", "Utf8"), array)
               [] dt.id = "Binary" -> converts_from_arrow(ConvertsPair("Bytea", "Binary"), array)
               [] dt.id = "LargeUtf8" ->
                     converts_from_arrow(ConvertsPair("Utf8", "LargeUtf8"), array)
               [] dt.id = "LargeBinary" ->
                     converts_from_arrow(ConvertsPair("Bytea", "LargeBinary"), array)
               [] dt.id = "List" -> from_list_array
               [] dt.id = "Struct" -> from_struct_array
               [] OTHER -> Err("unsupported arrow data type")

-----------------------------------------------------------------------------
(* DataChunk and RecordBatch *)

\* a DataChunk: its columns and its visibility bitmap, one bit per row
DataChunk(columns, visibility) == [columns |-> columns, visibility |-> visibility]

\* DataChunk::new(columns, n): every row visible
DataChunk_new(columns, n) == DataChunk(columns, [k \in 1..n |-> TRUE])

\* DataChunk::capacity and DataChunk::is_compacted
capacity(chunk) == Len(chunk.visibility)
is_compacted(chunk) == BitmapAll(chunk.visibility)

\* the elements of `data` at the rows that `visibility` marks, in order
RECURSIVE VisibleRows(_, _)
VisibleRows(data, visibility) ==
    IF Len(data) = 0 \/ Len(visibility) = 0 THEN <<>>
    ELSE (IF Head(visibility) THEN <<Head(data)>> ELSE <<>>)
             \o VisibleRows(Tail(data), Tail(visibility))

\* DataChunk::compact: the visible rows of every column, and no mask
compact(chunk) ==
    LET cardinality == Len(VisibleRows(chunk.visibility, chunk.visibility))
    IN  DataChunk_new([j \in 1..Len(chunk.columns) |->
                          Array(chunk.columns[j].ty,
                                VisibleRows(chunk.columns[j].data, chunk.visibility))],
                      cardinality)

\* arrow_array::RecordBatch
RecordBatch(schema, columns, num_rows) ==
    [schema |-> schema, columns |-> columns, num_rows |-> num_rows]

\* RecordBatch::try_new_with_options with row_count = Some(row_count)
RecordBatch_try_new(schema, columns, row_count) ==
    IF \/ Len(schema) # Len(columns)
       \/ \E j \in 1..Len(columns) :
             \/ ArrowLen(columns[j]) # row_count
             \/ columns[j].data_type # schema[j].data_type
             \/ ~schema[j].nullable
                    /\ \E k \in 1..row_count : ~ArrowIsValid(columns[j], k)
    THEN Err("to_arrow")
    ELSE Ok(RecordBatch(schema, columns, row_count))

\* to_record_batch without the compaction: the columns are converted whole
\* and the batch is given the capacity of the chunk
to_record_batch_uncompacted(schema, chunk) ==
    LET n == ZipLen(chunk.columns, schema)
        columns == TryCollect([j \in 1..n |->
                       to_array(schema[j].data_type, chunk.columns[j])])
    IN  IF ~IsOk(columns) THEN columns
        ELSE IF ZipEqFastPanics(chunk.columns, schema) THEN Panic
        ELSE RecordBatch_try_new(schema, columns.val, capacity(chunk))

\* ToArrow::to_record_batch
RECURSIVE to_record_batch(_, _)
to_record_batch(schema, chunk) ==
    \* compact the chunk if it's not compacted
    IF ~is_compacted(chunk) THEN to_record_batch(schema, compact(chunk))
    ELSE LET n == ZipLen(chunk.columns, schema)
             columns == TryCollect([j \in 1..n |->
                            to_array(schema[j].data_type, chunk.columns[j])])
         IN  IF ~IsOk(columns) THEN columns
             ELSE IF ZipEqFastPanics(chunk.columns, schema) THEN Panic
             ELSE RecordBatch_try_new(schema, columns.val, capacity(chunk))

\* a variant that leaves out the columns that fail to decode
from_record_batch_skip_failed(batch) ==
    LET n == ZipLen(batch.columns, batch.schema)
        results == [j \in 1..n |-> from_array(batch.schema[j], batch.columns[j])]
        columns == SelectSeq(results, IsOk)
    IN  Ok(DataChunk_new([j \in 1..Len(columns) |-> columns[j].val], batch.num_rows))

\* a variant that gives the chunk one row less than the batch has
from_record_batch_short(batch) ==
    LET n == ZipLen(batch.columns, batch.schema)
        columns == TryCollect([j \in 1..n |->
                       from_array(batch.schema[j], batch.columns[j])])
    IN  IF ~IsOk(columns) THEN columns
        ELSE Ok(DataChunk_new(columns.val,
                              IF batch.num_rows > 0 THEN batch.num_rows - 1 ELSE 0))

\* FromArrow::from_record_batch
from_record_batch(batch) ==
    LET n == ZipLen(batch.columns, batch.schema)
        columns == TryCollect([j \in 1..n |->
                       from_array(batch.schema[j], batch.columns[j])])
    IN  IF ~IsOk(columns) THEN columns
        ELSE IF ZipEqFastPanics(batch.columns, batch.schema) THEN Panic
        ELSE Ok(DataChunk_new(columns.val, batch.num_rows))

\* Array::data_type
RECURSIVE ArrayDataType(_)
ArrayDataType(array) ==
    CASE array.ty = "Bool" -> DataType("Boolean")
      [] array.ty = "Utf8" -> DataType("Varchar")
      [] array.ty = "List" -> DataTypeList(ArrayDataType(array.value))
      [] array.ty = "Struct" -> array.type_
      [] OTHER -> DataType(array.ty)

-----------------------------------------------------------------------------
(* SpecScalar: one scalar through into_arrow, then from_arrow *)

\* microsecond counts at and around the point where usecs * 1000 leaves i64
UsecSamples ==
    LET edge == I64_MAX \div NANOS_PER_MICRO
    IN  {I64_MIN, -edge - 1, -edge, -1, 0, 1, edge, edge + 1, I64_MAX}

\* sub-second parts of a timestamp or time, in nanoseconds (microsecond precision)
FracSamples == {0, 1000, 500000000, 999999000}

InitScalar ==
    /\ debug_build \in BOOLEAN
    /\ stack = <<>>
    /\ pc = "start"
    /\ \/ \E m \in I32_MIN..I32_MAX, d \in I32_MIN..I32_MAX, u \in UsecSamples :
              input = [ty |-> "Interval", v |-> [months |-> m, days |-> d, usecs |-> u]]
       \/ \E s \in -MaxSecs..MaxSecs, f \in FracSamples :
              input = [ty |-> "Timestamp", v |-> [secs |-> s, nsecs |-> f]]
       \/ \E s \in 0..MaxSecs, f \in FracSamples :
              input = [ty |-> "Time", v |-> [secs |-> s, frac |-> f]]
    /\ encoded = NotRun
    /\ decoded = NotRun

\* v.into_arrow()
ScalarIntoArrow ==
    /\ pc = "start"
    /\ encoded' = into_arrow(input.ty, input.v)
    /\ pc' = "encoded"
    /\ UNCHANGED <<debug_build, input, decoded, stack>>

\* T::from_arrow(value) on the value into_arrow returned
ScalarFromArrow ==
    /\ pc = "encoded"
    /\ IsOk(encoded)
    /\ decoded' = from_arrow(input.ty, encoded.val)
    /\ pc' = "decoded"
    /\ UNCHANGED <<debug_build, input, encoded, stack>>

NextScalar == ScalarIntoArrow \/ ScalarFromArrow

SpecScalar == InitScalar /\ [][NextScalar]_vars

\* C6: Interval::into_arrow returns, for every Interval, the 128-bit value whose
\* bits 0-31 are the two's complement of months, bits 32-63 that of days and
\* bits 64-127 that of nanoseconds = usecs * 1000.
C6_IntervalBitLayout ==
    (pc # "start" /\ input.ty = "Interval") =>
        /\ IsOk(encoded)
        /\ AsUnsigned(encoded.val, I32_BITS) = AsUnsigned(input.v.months, I32_BITS)
        /\ AsUnsigned(Shr(encoded.val, I32_BITS), I32_BITS)
               = AsUnsigned(input.v.days, I32_BITS)
        /\ AsSigned(Shr(encoded.val, I32_BITS + I32_BITS), I64_BITS)
               = input.v.usecs * NANOS_PER_MICRO

\* C7: Interval::from_arrow(Interval::into_arrow(x)) = x for every representable
\* Interval, the extremes of the usecs range included.
C7_IntervalRoundTrip ==
    (pc # "start" /\ input.ty = "Interval") =>
        /\ IsOk(encoded)
        /\ pc = "decoded" => decoded = Ok(input.v)

\* C8: Timestamp::into_arrow yields the microsecond count since the epoch and
\* Timestamp::from_arrow of that count returns the original Timestamp without
\* panicking, instants before the epoch included.
C8_TimestampRoundTrip ==
    (pc # "start" /\ input.ty = "Timestamp") =>
        /\ encoded = Ok(input.v.secs * MICROS_PER_SEC + input.v.nsecs \div NANOS_PER_MICRO)
        /\ pc = "decoded" => decoded = Ok(input.v)

-----------------------------------------------------------------------------
(* SpecArray: one array through a From / TryFrom conversion and back *)

\* sample values of each RisingWave array type
Samples(ty) ==
    CASE ty = "Bool" -> <<FALSE, TRUE>>
      [] ty \in {"Int16", "Int32", "Int64"} -> <<-7, 25>>
      [] ty = "Int256" -> <<-7, 25, -Pow2(BYTE_BITS * I256_BYTES - 1),
                            Pow2(BYTE_BITS * I256_BYTES - 1) - 1, 1>>
      [] ty \in {"Float32", "Float64"} -> <<[float |-> -7], [float |-> 25]>>
      [] ty = "Bytea" -> << <<"a", "r">>, <<>> >>
      [] ty = "Utf8" -> << <<"a", "b">>, NaNText >>
      [] ty = "Date" -> <<[days_ce |-> UNIX_EPOCH_DAY_CE + 12345],
                          [days_ce |-> UNIX_EPOCH_DAY_CE - 12345]>>
      [] ty = "Time" -> <<[secs |-> 1, frac |-> 1000],
                          [secs |-> MaxSecs, frac |-> 999999000],
                          [secs |-> 0, frac |-> 0]>>
      [] ty = "Timestamp" -> <<[secs |-> 1, nsecs |-> 1000],
                               [secs |-> -1, nsecs |-> 999999000]>>
      [] ty = "Timestamptz" -> <<[micros |-> -1], [micros |-> 5]>>
      [] ty = "Interval" -> <<[months |-> 1, days |-> 1, usecs |-> 1],
                              [months |-> -1, days |-> -1, usecs |-> -1],
                              [months |-> 0, days |-> 0, usecs |-> I64_MAX]>>
      [] ty = "Serial" -> <<[serial |-> 1], [serial |-> 2]>>
      [] ty = "Jsonb" -> <<JsonNull, JsonBool(TRUE), JsonNumber(12),
                           JsonArray(<<JsonNumber(1), JsonNull>>),
                           JsonObject(<<"a">>, JsonBool(FALSE))>>
      [] ty = "Decimal" -> <<DecimalNaN, DecimalPositiveInf, DecimalNegativeInf,
                             DecimalNormalized(1234, 1), DecimalNormalized(123456, 3),
                             DecimalNormalized(5, 2), DecimalNormalized(-5, 0)>>

\* the array of type ty whose slot i holds sample idx[i], or null for idx[i] = 0
SampleArray(ty, idx) ==
    Array(ty, [i \in DOMAIN idx |-> IF idx[i] = 0 THEN None ELSE Some(Samples(ty)[idx[i]])])

\* the conversions between concrete array types: those generated by converts!
\* and the hand-written ones of DecimalArray
Conversions ==
    [i \in 1..Len(ConvertsPairs) |->
        [kind |-> "converts", ty |-> ConvertsPairs[i].ty, pair |-> ConvertsPairs[i]]]
    \o << [kind |-> "decimal", ty |-> "Decimal", arrow |-> "Utf8"],
          [kind |-> "decimal", ty |-> "Decimal", arrow |-> "LargeBinary"],
          [kind |-> "int256", ty |-> "Int256", arrow |-> "Decimal256"],
          [kind |-> "jsonb", ty |-> "Jsonb", arrow |-> "Utf8"],
          [kind |-> "jsonb", ty |-> "Jsonb", arrow |-> "LargeUtf8"] >>

InitArray ==
    /\ debug_build \in BOOLEAN
    /\ stack = <<>>
    /\ pc = "start"
    /\ \E c \in 1..Len(Conversions), n \in 0..MaxRows :
          \E idx \in [1..n -> 0..Len(Samples(Conversions[c].ty))] :
              input = [conv |-> Conversions[c],
                       array |-> SampleArray(Conversions[c].ty, idx)]
    /\ encoded = NotRun
    /\ decoded = NotRun

\* raw values of a Decimal128 array: the three reserved ones, small ones and
\* those at the end of the 96-bit mantissa
Decimal128Samples ==
    << I128_MIN, I128_MIN + 1, I128_MAX, 0, 25, -7, Pow2(DECIMAL_MANTISSA_BITS) - 1,
       Pow2(DECIMAL_MANTISSA_BITS), -Pow2(DECIMAL_MANTISSA_BITS) >>

\* scales of a Decimal128 array
Decimal128Scales == {-1, 0, 2, DECIMAL_MAX_SCALE, DECIMAL_MAX_SCALE + 1}

\* a given Decimal128 array, to be converted to a DecimalArray
InitDecimal128 ==
    /\ debug_build \in BOOLEAN
    /\ stack = <<>>
    /\ pc = "encoded"
    /\ decoded = NotRun
    /\ \E scale \in Decimal128Scales, n \in 0..MaxRows :
          \E idx \in [1..n -> 0..Len(Decimal128Samples)] :
              LET array == ArrowArray(ArrowDecimal("Decimal128", 38, scale),
                                      [i \in 1..n |->
                                          IF idx[i] = 0 THEN None
                                          ELSE Some(Decimal128Samples[idx[i]])])
              IN  /\ input = [conv |-> [kind |-> "decimal128", ty |-> "Decimal",
                                        arrow |-> "Decimal128"],
                              array |-> array]
                  /\ encoded = Ok(array)

\* <ArrowArray>::from(&array)
ArrayIntoArrow ==
    /\ pc = "start"
    /\ encoded' = CASE input.conv.kind = "converts" ->
                         converts_to_arrow(input.conv.pair, input.array)
                    [] input.conv.kind = "decimal" /\ input.conv.arrow = "Utf8" ->
                         Ok(DecimalArray_to_StringArray(input.array))
                    [] input.conv.kind = "decimal" /\ input.conv.arrow = "LargeBinary" ->
                         Ok(DecimalArray_to_LargeBinaryArray(input.array))
                    [] input.conv.kind = "jsonb" ->
                         Ok(JsonbArray_to_string_array(ArrowType(input.conv.arrow),
                                                       input.array))
                    [] input.conv.kind = "int256" ->
                         Ok(Int256Array_to_Decimal256Array(input.array))
    /\ pc' = "encoded"
    /\ UNCHANGED <<debug_build, input, decoded, stack>>

\* <Array>::from(&arrow) / <Array>::try_from(&arrow) on the array just produced
\* or given
ArrayFromArrow ==
    /\ pc = "encoded"
    /\ IsOk(encoded)
    /\ decoded' = CASE input.conv.kind = "converts" ->
                         converts_from_arrow(input.conv.pair, encoded.val)
                    [] input.conv.kind = "decimal" /\ input.conv.arrow = "Utf8" ->
                         DecimalArray_try_from_StringArray(encoded.val)
                    [] input.conv.kind = "decimal" /\ input.conv.arrow = "LargeBinary" ->
                         DecimalArray_try_from_LargeBinaryArray(encoded.val)
                    [] input.conv.kind = "jsonb" ->
                         JsonbArray_try_from_string_array(encoded.val)
                    [] input.conv.kind = "int256" ->
                         Ok(Int256Array_from_Decimal256Array(encoded.val))
                    [] input.conv.kind = "decimal128" ->
                         DecimalArray_try_from_Decimal128Array(encoded.val)
    /\ pc' = "decoded"
    /\ UNCHANGED <<debug_build, input, encoded, stack>>

NextArray == ArrayIntoArrow \/ ArrayFromArrow

SpecArray == (InitArray \/ InitDecimal128) /\ [][NextArray]_vars

\* slot i of `out` is null exactly when slot i of `from` is, and the two are
\* of one length
SameNulls(from, out) ==
    /\ Len(out) = Len(from)
    /\ \A i \in 1..Len(from) : IsSome(out[i]) <=> IsSome(from[i])

MicrosOfDay(t) == t.secs * MICROS_PER_SEC + t.frac \div NANOS_PER_MICRO

C23_JsonbTextRoundTrip ==
    (pc # "start" /\ input.conv.kind = "jsonb") =>
        /\ IsOk(encoded)
        /\ encoded.val.data_type = ArrowType(input.conv.arrow)
        /\ SameNulls(input.array.data, encoded.val.data)
        /\ \A i \in 1..Len(input.array.data) :
               IsSome(input.array.data[i]) =>
                   encoded.val.data[i] = Some(Jsonb_to_string(input.array.data[i][1]))
        /\ pc = "decoded" => decoded = Ok(input.array)

\* a null element and a JSON null through the large-string carrier and back
C23_Witness ==
    /\ pc = "decoded"
    /\ input.conv.kind = "jsonb"
    /\ input.conv.arrow = "LargeUtf8"
    /\ Len(input.array.data) = 2
    /\ input.array.data[1] = None
    /\ IsSome(input.array.data[2])
    /\ input.array.data[2][1].j = "null"
    /\ encoded.val.data = <<None, Some(NullText)>>
    /\ decoded = Ok(input.array)

\* an array and an object through the string carrier and back
C23_WitnessNested ==
    /\ pc = "decoded"
    /\ input.conv.kind = "jsonb"
    /\ input.conv.arrow = "Utf8"
    /\ Len(input.array.data) = 2
    /\ \A i \in 1..2 : IsSome(input.array.data[i])
    /\ input.array.data[1][1].j = "array"
    /\ input.array.data[2][1].j = "object"
    /\ encoded.val.data = <<Some(<<"[", "1", ",", "n", "u", "l", "l", "]">>),
                            Some(<<"{", "\"", "a", "\"", ":", "f", "a", "l", "s", "e", "}">>)>>
    /\ decoded = Ok(input.array)

\* the least and the greatest Int256
Int256Min == -Pow2(BYTE_BITS * I256_BYTES - 1)
Int256Max == Pow2(BYTE_BITS * I256_BYTES - 1) - 1

\* C24: an Int256Array converts to the Decimal256 array that holds, slot for
\* slot, null for a null and otherwise the i256 of the same value, and
\* converting that array back gives the original, the least and the greatest
\* value included.
C24_Int256RoundTrip ==
    (pc # "start" /\ input.conv.kind = "int256") =>
        /\ IsOk(encoded)
        /\ encoded.val.data = input.array.data
        /\ pc = "decoded" => decoded = Ok(input.array)

C24_Witness ==
    /\ pc = "decoded"
    /\ input.conv.kind = "int256"
    /\ input.array.data = <<Some(Int256Min), Some(Int256Max)>>
    /\ encoded.val.data = input.array.data
    /\ decoded = Ok(input.array)

C24_WitnessNull ==
    /\ pc = "decoded"
    /\ input.conv.kind = "int256"
    /\ input.array.data = <<None, Some(-7)>>
    /\ decoded = Ok(input.array)

\* the raw value is none of the three reserved ones and, with the scale,
\* has no Decimal: the scale is over 28 or the value beyond 96 bits
Unrepresentable(v, scale) ==
    /\ v \notin {I128_MIN, I128_MIN + 1, I128_MAX}
    /\ \/ scale > DECIMAL_MAX_SCALE
       \/ v > Pow2(DECIMAL_MANTISSA_BITS) - 1
       \/ v < -(Pow2(DECIMAL_MANTISSA_BITS) - 1)

\* C30: the conversion of a Decimal128 array to a DecimalArray is an error
\* when the scale is negative; otherwise it is an error when a value with the
\* scale has no Decimal, and else nulls stay null, i128::MIN + 1 becomes NaN,
\* i128::MAX +Infinity, i128::MIN -Infinity, and any other v the decimal
\* v * 10^(-scale).
C30_Decimal128Decoding ==
    (pc = "decoded" /\ input.conv.kind = "decimal128") =>
        LET scale == input.array.data_type.scale
            data == input.array.data
        IN  IF scale < 0 THEN IsErr(decoded)
            ELSE IF \E i \in 1..Len(data) :
                        IsSome(data[i]) /\ Unrepresentable(data[i][1], scale)
                 THEN IsErr(decoded)
            ELSE /\ IsOk(decoded)
                 /\ decoded.val.ty = "Decimal"
                 /\ Len(decoded.val.data) = Len(data)
                 /\ \A i \in 1..Len(data) :
                        decoded.val.data[i] =
                            IF ~IsSome(data[i]) THEN None
                            ELSE IF data[i][1] = I128_MIN + 1 THEN Some(DecimalNaN)
                            ELSE IF data[i][1] = I128_MAX THEN Some(DecimalPositiveInf)
                            ELSE IF data[i][1] = I128_MIN THEN Some(DecimalNegativeInf)
                            ELSE Some(DecimalNormalized(data[i][1], scale))

\* a null and a value at scale 2
C30_Witness ==
    /\ pc = "decoded"
    /\ input.conv.kind = "decimal128"
    /\ input.array.data_type.scale = 2
    /\ input.array.data = <<None, Some(25)>>
    /\ decoded = Ok(Array("Decimal", <<None, Some(DecimalNormalized(25, 2))>>))

\* a negative scale
C30_WitnessNegativeScale ==
    /\ pc = "decoded"
    /\ input.conv.kind = "decimal128"
    /\ input.array.data_type.scale < 0
    /\ input.array.data = <<Some(I128_MAX)>>
    /\ IsErr(decoded)

\* the reserved values
C30_WitnessSpecial ==
    /\ pc = "decoded"
    /\ input.conv.kind = "decimal128"
    /\ input.array.data = <<Some(I128_MIN + 1), Some(I128_MAX)>>
    /\ decoded = Ok(Array("Decimal", <<Some(DecimalNaN), Some(DecimalPositiveInf)>>))

\* a value beyond the mantissa
C30_WitnessUnrepresentable ==
    /\ pc = "decoded"
    /\ input.conv.kind = "decimal128"
    /\ input.array.data_type.scale = 0
    /\ input.array.data = <<Some(0), Some(Pow2(DECIMAL_MANTISSA_BITS))>>
    /\ IsErr(decoded)

-----------------------------------------------------------------------------
(* Spec: a chunk through to_record_batch, then from_record_batch *)

\* largest sample index a row may pick
MaxPick == 2

\* the kinds of column of the sampled chunks: an array type and the Arrow type
\* the caller's schema asks for, None standing for the type to_arrow_field derives
ColumnKinds ==
    << [ty |-> "Bool", target |-> None],
       [ty |-> "Int16", target |-> None],
       [ty |-> "Int32", target |-> None],
       [ty |-> "Int64", target |-> None],
       [ty |-> "Int256", target |-> None],
       [ty |-> "Float32", target |-> None],
       [ty |-> "Float64", target |-> None],
       [ty |-> "Date", target |-> None],
       [ty |-> "Time", target |-> None],
       [ty |-> "Timestamp", target |-> None],
       [ty |-> "Timestamptz", target |-> None],
       [ty |-> "Interval", target |-> None],
       [ty |-> "Utf8", target |-> None],
       [ty |-> "Bytea", target |-> None],
       [ty |-> "Serial", target |-> None],
       [ty |-> "Decimal", target |-> None],
       [ty |-> "Jsonb", target |-> None],
       [ty |-> "Float64", target |-> Some(ArrowType("Float32"))],
       [ty |-> "Utf8", target |-> Some(ArrowType("LargeUtf8"))],
       [ty |-> "Int32", target |-> Some(ArrowStruct(<<>>))] >>

\* the kind of column j of a chunk whose first column is of kind `start`
KindAt(start, j) == ColumnKinds[((start + j - 2) % Len(ColumnKinds)) + 1]

\* column j: row r holds the sample picks[r] + j - 1, counted round the
\* samples of the column's type with 0 for null, so that the columns of a row
\* differ in value and in validity
SampleColumn(kind, j, picks) ==
    SampleArray(kind.ty,
                [r \in DOMAIN picks |-> (picks[r] + j - 1) % (Len(Samples(kind.ty)) + 1)])

SampleField(kind) ==
    IF IsSome(kind.target) THEN Field("c", kind.target[1], TRUE)
    ELSE to_arrow_field("c", ArrayDataType(Array(kind.ty, <<>>))).val

Init ==
    /\ debug_build \in BOOLEAN
    /\ stack = <<>>
    /\ pc = "start"
    /\ \E start \in 1..Len(ColumnKinds), ncols \in 0..MaxCols, nrows \in 0..MaxRows :
          \E visibility \in [1..nrows -> BOOLEAN], picks \in [1..nrows -> 0..MaxPick] :
              input = [schema |-> [j \in 1..ncols |-> SampleField(KindAt(start, j))],
                       chunk |-> DataChunk([j \in 1..ncols |->
                                               SampleColumn(KindAt(start, j), j, picks)],
                                           visibility)]
    /\ encoded = NotRun
    /\ decoded = NotRun

\* a variant that compacts the caller's chunk itself instead of a clone:
\* chunk.compact() in place of chunk.clone().compact()
ToRecordBatch_compacts_in_place ==
    /\ pc = "start"
    /\ encoded' = to_record_batch(input.schema, input.chunk)
    /\ input' = [input EXCEPT !.chunk = IF is_compacted(@) THEN @ ELSE compact(@)]
    /\ pc' = "encoded"
    /\ UNCHANGED <<debug_build, decoded, stack>>

\* to_record_batch(schema, &chunk)
ToRecordBatch ==
    /\ pc = "start"
    /\ encoded' = to_record_batch(input.schema, input.chunk)
    /\ pc' = "encoded"
    /\ UNCHANGED <<debug_build, input, decoded, stack>>

\* from_record_batch(&batch) on the batch just produced
FromRecordBatch ==
    /\ pc = "encoded"
    /\ "chunk" \in DOMAIN input
    /\ IsOk(encoded)
    /\ decoded' = from_record_batch(encoded.val)
    /\ pc' = "decoded"
    /\ UNCHANGED <<debug_build, input, encoded, stack>>

Next == ToRecordBatch \/ FromRecordBatch

Spec == Init /\ [][Next]_vars


\* the array types of the primitive logical types
PrimitiveArrayTypes ==
    {"Bool", "Int16", "Int32", "Int64", "Int256", "Float32", "Float64", "Date", "Time",
     "Timestamp", "Timestamptz", "Interval", "Utf8", "Bytea", "Serial"}

\* every column is of a primitive type and its field the one to_arrow_field derives
NaturalPrimitive(schema, chunk) ==
    /\ Len(schema) = Len(chunk.columns)
    /\ \A j \in 1..Len(chunk.columns) :
          /\ chunk.columns[j].ty \in PrimitiveArrayTypes
          /\ Ok(schema[j]) = to_arrow_field("c", ArrayDataType(chunk.columns[j]))

\* two chunks of the same columns, by type and by value, and the same rows
SameChunk(a, b) ==
    /\ a.visibility = b.visibility
    /\ Len(a.columns) = Len(b.columns)
    /\ \A j \in 1..Len(a.columns) :
          /\ a.columns[j].ty = b.columns[j].ty
          /\ a.columns[j].data = b.columns[j].data

\* C1: for a chunk without a pending mask whose columns are of primitive types,
\* under the schema to_arrow_field derives, from_record_batch(to_record_batch(..))
\* is the original chunk: the same type in every position, value for value and
\* null for null.
C1_BatchRoundTrip ==
    (is_compacted(input.chunk) /\ NaturalPrimitive(input.schema, input.chunk)) =>
        /\ pc # "start" => IsOk(encoded)
        /\ pc = "decoded" => IsOk(decoded) /\ SameChunk(decoded.val, input.chunk)

C2_WitnessNoColumns ==
    /\ pc = "encoded"
    /\ IsOk(encoded)
    /\ Len(input.chunk.columns) = 0
    /\ input.chunk.visibility = <<TRUE, FALSE>>
    /\ encoded.val.num_rows = 1

-----------------------------------------------------------------------------
(* SpecField: a data type through to_arrow_field and from_field, and a given  *)
(* Arrow field with its array through from_field and from_array               *)

ScalarDataTypes ==
    <<"Boolean", "Int16", "Int32", "Int64", "Int256", "Float32", "Float64", "Date",
      "Time", "Timestamp", "Timestamptz", "Interval", "Varchar", "Bytea", "Serial",
      "Decimal", "Jsonb">>

\* nested data types over the scalar type t
NestedDataTypes(t) ==
    << DataTypeList(DataType(t)),
       DataTypeList(DataTypeList(DataType(t))),
       DataTypeStruct(<<StructField("a", DataType(t)), StructField("b", DataType("Jsonb"))>>),
       DataTypeStruct(<<StructField("a", DataTypeList(DataType("Decimal"))),
                        StructField("b", DataType(t))>>),
       DataTypeList(DataTypeStruct(<<StructField("x", DataType(t))>>)) >>

FieldNames == {"c", "item"}

\* the extension names a given field may carry: none, the two of the code,
\* and names the code does not know
ExtensionSamples ==
    << None, Some("arrowudf.decimal"), Some("arrowudf.json"), Some("ext.decimal"),
       Some("ext.json"), Some("arrowudf.unknown"), Some("") >>

\* the physical types of the given arrays; Int8, Time64(ns), Timestamp(ms) and
\* Interval(YearMonth) have no RisingWave counterpart
PhysicalTypes ==
    << ArrowType("Boolean"), ArrowType("Int8"), ArrowType("Int16"), ArrowType("Int32"),
       ArrowType("Int64"), ArrowType("Float32"), ArrowType("Float64"),
       ArrowDecimal("Decimal128", 10, 2),
       ArrowDecimal("Decimal256", DECIMAL256_MAX_PRECISION, 0),
       ArrowType("Date32"), ArrowTime64("us"), ArrowTime64("ns"),
       ArrowTimestamp("us", None), ArrowTimestamp("us", Some(UTC)),
       ArrowTimestamp("ms", None), ArrowInterval("MonthDayNano"),
       ArrowInterval("YearMonth"), ArrowType("Utf8"), ArrowType("Binary"),
       ArrowType("LargeUtf8"), ArrowType("LargeBinary") >>

\* sample values of an Arrow array of a physical type
ArrowSamples(data_type) ==
    CASE data_type.id = "Boolean" -> <<FALSE, TRUE>>
      [] data_type.id \in {"Utf8", "LargeUtf8"} ->
            << <<"1", ".", "5">>, NaNText, TrueText, <<"a", "b">> >>
      [] data_type.id \in {"Binary", "LargeBinary"} -> << <<"a", "r">>, <<InvalidByte>> >>
      [] data_type.id \in {"Time64", "Timestamp"} -> <<1000001, 5>>
      [] OTHER -> <<-7, 25>>

\* given arrays of nested types
NestedSamples ==
    LET ints == ArrowArray(ArrowType("Int32"), <<Some(-7), None, Some(25)>>)
        texts == ArrowArray(ArrowType("Utf8"), <<Some(<<"1", ".", "5">>), Some(NaNText)>>)
        item == Field("item", ArrowType("Int32"), TRUE)
        tagged == WithExtension(Field("d", ArrowType("Utf8"), TRUE), "arrowudf.decimal")
        unknown == WithExtension(Field("u", ArrowType("Utf8"), TRUE), "arrowudf.unknown")
        bytes == ArrowArray(ArrowType("Int8"), <<Some(-7), None, Some(25)>>)
        tiny == Field("t", ArrowType("Int8"), TRUE)
        large_texts == ArrowArray(ArrowType("LargeUtf8"),
                                  <<Some(<<"1", ".", "5">>), Some(NaNText)>>)
        tagged_int == WithExtension(Field("d", ArrowType("Int32"), TRUE), "arrowudf.decimal")
        tagged_large == WithExtension(Field("j", ArrowType("LargeUtf8"), TRUE),
                                      "arrowudf.json")
    IN  << ArrowListArray(item, <<0, 1, 3>>, ints, None),
           ArrowListArray(item, <<0, 0, 3>>, ints, Some(<<FALSE, TRUE>>)),
           \* a slice [1..] of the first: the offsets start after 0
           ArrowListArray(item, <<1, 3>>, ints, None),
           \* a slice [..1] of the first: the values go on after the last offset
           ArrowListArray(item, <<0, 1>>, ints, Some(<<TRUE>>)),
           ArrowListArray(tagged, <<0, 2>>, texts, None),
           ArrowListArray(unknown, <<0, 2>>, texts, None),
           ArrowStructArray(<<Field("a", ArrowType("Utf8"), TRUE), tagged>>,
                            <<texts, texts>>, Some(<<TRUE, FALSE>>), 2),
           ArrowStructArray(<<Field("a", ArrowType("Utf8"), TRUE), unknown>>,
                            <<texts, texts>>, None, 2),
           \* a recognised extension name over a carrier that is not Utf8, one
           \* and two levels down
           ArrowListArray(tagged_int, <<0, 1, 3>>, ints, None),
           ArrowListArray(tagged_large, <<0, 2>>, large_texts, None),
           ArrowStructArray(<<item, tagged_int>>, <<ints, ints>>, None, 3),
           ArrowListArray(Field("item", ArrowStruct(<<tagged, tagged_large>>), TRUE),
                          <<0, 2>>,
                          ArrowStructArray(<<tagged, tagged_large>>,
                                           <<texts, large_texts>>, None, 2),
                          None),
           ArrowStructArray(<<Field("l", ArrowList(tagged_int), TRUE)>>,
                            << ArrowListArray(tagged_int, <<0, 3>>, ints, None) >>,
                            Some(<<TRUE>>), 1),
           \* a physical type without a counterpart, one and two levels down
           ArrowListArray(tiny, <<0, 1, 3>>, bytes, None),
           ArrowStructArray(<<item, tiny>>, <<ints, bytes>>, None, 3),
           ArrowStructArray(<<item, Field("l", ArrowList(tiny), TRUE)>>,
                            << ArrowArray(ArrowType("Int32"), <<Some(25)>>),
                               ArrowListArray(tiny, <<0, 3>>, bytes, None) >>,
                            None, 1),
           \* nested fields that all map, two levels down
           ArrowStructArray(<<item, Field("l", ArrowList(tagged), TRUE)>>,
                            << ArrowArray(ArrowType("Int32"), <<Some(25)>>),
                               ArrowListArray(tagged, <<0, 2>>, texts, None) >>,
                            None, 1) >>

InitField ==
    /\ debug_build \in BOOLEAN
    /\ stack = <<>>
    /\ decoded = NotRun
    /\ \/ /\ pc = "start"
          /\ encoded = NotRun
          /\ \E name \in FieldNames, t \in 1..Len(ScalarDataTypes) :
                \/ input = [origin |-> "type", name |-> name,
                            ty |-> DataType(ScalarDataTypes[t])]
                \/ \E k \in 1..Len(NestedDataTypes(ScalarDataTypes[t])) :
                      input = [origin |-> "type", name |-> name,
                               ty |-> NestedDataTypes(ScalarDataTypes[t])[k]]
       \/ /\ pc = "encoded"
          /\ \E e \in 1..Len(ExtensionSamples) :
                \E array \in
                      {ArrowArray(PhysicalTypes[t],
                                  [i \in DOMAIN idx |->
                                      IF idx[i] = 0 THEN None
                                      ELSE Some(ArrowSamples(PhysicalTypes[t])[idx[i]])]) :
                          <<t, idx>> \in
                              {<<t, idx>> \in (1..Len(PhysicalTypes)) \X
                                              UNION {[1..n -> 0..4] : n \in 0..MaxRows} :
                                  \A i \in DOMAIN idx :
                                      idx[i] <= Len(ArrowSamples(PhysicalTypes[t]))}}
                      \cup {NestedSamples[k] : k \in 1..Len(NestedSamples)} :
                    /\ input = [origin |-> "arrow", array |-> array]
                    /\ encoded = Ok([Field("c", array.data_type, TRUE)
                                        EXCEPT !.ext = ExtensionSamples[e]])

\* to_arrow_field(name, &data_type)
ToArrowField ==
    /\ pc = "start"
    /\ input.origin = "type"
    /\ encoded' = to_arrow_field(input.name, input.ty)
    /\ pc' = "encoded"
    /\ UNCHANGED <<debug_build, input, decoded, stack>>

\* from_field(&field) on the field derived or given
FromField ==
    /\ pc = "encoded"
    /\ IsOk(encoded)
    /\ decoded' = [call |-> "from_field", ret |-> from_field(encoded.val)]
    /\ pc' = "decoded"
    /\ UNCHANGED <<debug_build, input, encoded, stack>>

\* from_array(&field, &array) on a given field and its array
FromArray ==
    /\ pc = "encoded"
    /\ input.origin = "arrow"
    /\ decoded' = [call |-> "from_array", ret |-> from_array(encoded.val, input.array)]
    /\ pc' = "decoded"
    /\ UNCHANGED <<debug_build, input, encoded, stack>>

NextField == ToArrowField \/ FromField \/ FromArray

SpecField == InitField /\ [][NextField]_vars

\* the extension name of the field that was decoded, when it has one
Tagged == pc = "decoded" /\ IsSome(encoded.val.ext)
Tag == encoded.val.ext[1]
PhysicalType == encoded.val.data_type

\* C3: decoding a field whose extension name is neither arrowudf.decimal nor
\* arrowudf.json, by from_field or by from_array, returns the
\* unsupported-extension error whatever the name and the physical type are; it
\* is never decoded as Varchar or as any other type.
C3_UnknownExtensionIsError ==
    (Tagged /\ Tag \notin {"arrowudf.decimal", "arrowudf.json"}) =>
        decoded.ret = Err("unsupported extension type")

C3_Witness ==
    /\ Tagged
    /\ Tag = "arrowudf.unknown"
    /\ PhysicalType = ArrowType("Utf8")
    /\ decoded.call = "from_array"
    /\ Len(input.array.data) = 2
    /\ input.array.data[1] = Some(<<"a", "b">>)
    /\ decoded.ret = Err("unsupported extension type")

\* C4: from_field and from_array look at the extension name before the
\* physical type: a Utf8 field without an extension name decodes as Varchar
\* (a Utf8 array of the same slots), never as Decimal or Jsonb, and a field
\* with an extension name decodes to what the extension decoder gives, an
\* error or Decimal or Jsonb, whatever its physical type.
C4_TagFirstDispatch ==
    /\ (pc = "decoded" /\ ~IsSome(encoded.val.ext) /\ PhysicalType = ArrowType("Utf8")) =>
          IF decoded.call = "from_field"
          THEN decoded.ret = Ok(DataType("Varchar"))
          ELSE /\ IsOk(decoded.ret)
               /\ decoded.ret.val.ty = "Utf8"
               /\ decoded.ret.val.data = input.array.data
    /\ Tagged =>
          IF decoded.call = "from_field"
          THEN /\ decoded.ret = from_extension_type(Tag, PhysicalType)
               /\ IsOk(decoded.ret) => decoded.ret.val.t \in {"Decimal", "Jsonb"}
          ELSE /\ decoded.ret = from_extension_array(Tag, input.array)
               /\ IsOk(decoded.ret) => decoded.ret.val.ty \in {"Decimal", "Jsonb"}

C4_Witness ==
    /\ Tagged
    /\ Tag = "arrowudf.json"
    /\ PhysicalType = ArrowType("Utf8")
    /\ decoded.call = "from_array"
    /\ Len(input.array.data) = 2
    /\ input.array.data[1] = Some(TrueText)
    /\ input.array.data[2] = None
    /\ IsOk(decoded.ret)
    /\ decoded.ret.val.ty = "Jsonb"

\* the wire contract of the extension fields under the names `decimal` and
\* `json`: to_arrow_field gives Decimal a Utf8 field named `decimal` and Jsonb
\* a Utf8 field named `json`; of the fields that have an extension name, the
\* decoder maps those that pair `decimal` with Utf8 to Decimal, those that
\* pair `json` with Utf8 to Jsonb, and no other
ExtensionWireContract(decimal, json) ==
    /\ (pc # "start" /\ input.origin = "type" /\ input.ty.t = "Decimal") =>
          /\ IsOk(encoded)
          /\ encoded.val.name = input.name
          /\ encoded.val.data_type = ArrowType("Utf8")
          /\ encoded.val.ext = Some(decimal)
    /\ (pc # "start" /\ input.origin = "type" /\ input.ty.t = "Jsonb") =>
          /\ IsOk(encoded)
          /\ encoded.val.name = input.name
          /\ encoded.val.data_type = ArrowType("Utf8")
          /\ encoded.val.ext = Some(json)
    /\ (pc = "decoded" /\ input.origin = "type" /\ input.ty.t \in {"Decimal", "Jsonb"}) =>
          decoded.ret = Ok(input.ty)
    /\ (Tagged /\ decoded.call = "from_field") =>
          /\ (Tag = decimal /\ PhysicalType = ArrowType("Utf8"))
                <=> decoded.ret = Ok(DataType("Decimal"))
          /\ (Tag = json /\ PhysicalType = ArrowType("Utf8"))
                <=> decoded.ret = Ok(DataType("Jsonb"))
          /\ IsOk(decoded.ret) => decoded.ret.val.t \in {"Decimal", "Jsonb"}
    /\ (Tagged /\ decoded.call = "from_array" /\ IsOk(decoded.ret)) =>
          /\ decoded.ret.val.ty = "Decimal"
                <=> (Tag = decimal /\ PhysicalType = ArrowType("Utf8"))
          /\ decoded.ret.val.ty = "Jsonb"
                <=> (Tag = json /\ PhysicalType = ArrowType("Utf8"))

-----------------------------------------------------------------------------
(* Nested arrays on decode *)

\* a List array was decoded by from_array, and decoded successfully
ListDecoded ==
    /\ pc = "decoded"
    /\ decoded.call = "from_array"
    /\ ~IsSome(encoded.val.ext)
    /\ PhysicalType.id = "List"
    /\ IsOk(decoded.ret)

\* C11: the ListArray that from_list_array decodes from a List array of n rows
\* has n + 1 offsets, monotone, the first 0 and the last the length of the
\* decoded child array, and a bitmap of n bits, all ones when the input has no
\* null buffer.
C11_ListStructuralValidity ==
    ListDecoded =>
        LET n == ArrowLen(input.array)
            list == decoded.ret.val
        IN  /\ Len(list.offsets) = n + 1
            /\ \A k \in 1..n : list.offsets[k] <= list.offsets[k + 1]
            /\ list.offsets[1] = 0
            /\ list.offsets[n + 1] = ArrayLen(list.value)
            /\ Len(list.bitmap) = n
            /\ ~IsSome(input.array.nulls) => BitmapAll(list.bitmap)

\* the same for the List arrays whose offsets span the whole child array
C11_HoldsForUnslicedLists ==
    (ListDecoded /\ input.array.offsets[1] = 0
       /\ input.array.offsets[Len(input.array.offsets)] = ArrowLen(input.array.values)) =>
        C11_ListStructuralValidity

-----------------------------------------------------------------------------
(* SpecToArray: one array through to_array under a target type, then back    *)
(* through from_array under the field of that type                           *)

\* the array of type ty of n rows whose row r holds sample r + shift, counted
\* round the samples of the type with 0 for null
ShiftedArray(ty, n, shift) ==
    SampleArray(ty, [r \in 1..n |-> (r + shift) % (Len(Samples(ty)) + 1)])

\* the array types of the children of the sampled StructArrays and ListArrays
ChildTypes == <<"Int32", "Utf8", "Decimal", "Float64">>

\* the lengths of the child of a sampled ListArray: the last is the first
\* length that the signed offsets of the Arrow list cannot hold
ListChildLens == {0, 1, 2, Pow2(I32_BITS - 1)}

\* the pairs (array type, target type) of the sampled primitive arrays whose
\* target is not the type to_arrow_field derives
CastPairs ==
    << [ty |-> "Float64", target |-> ArrowType("Float32")],
       [ty |-> "Float32", target |-> ArrowType("Float64")],
       [ty |-> "Int32", target |-> ArrowType("Int64")],
       [ty |-> "Int64", target |-> ArrowType("Int16")],
       [ty |-> "Utf8", target |-> ArrowType("LargeUtf8")],
       [ty |-> "Bytea", target |-> ArrowType("LargeBinary")],
       [ty |-> "Timestamp", target |-> ArrowTimestamp("us", Some(UTC))],
       [ty |-> "Timestamptz", target |-> ArrowTimestamp("us", None)],
       [ty |-> "Bool", target |-> ArrowStruct(<<>>)],
       [ty |-> "Int32", target |-> ArrowStruct(<<>>)],
       [ty |-> "Float64", target |-> ArrowStruct(<<>>)],
       [ty |-> "Utf8", target |-> ArrowStruct(<<>>)],
       [ty |-> "Decimal", target |-> ArrowStruct(<<>>)],
       [ty |-> "Date", target |-> ArrowStruct(<<>>)] >>

\* the field to_arrow_field derives for the type of an array
NaturalField(array) == to_arrow_field("c", ArrayDataType(array)).val

\* a StructArray over the given children, its type named after them
SampleStruct(children, bitmap) ==
    StructArray(DataTypeStruct([k \in 1..Len(children) |->
                                   StructField(<<"a", "b">>[k], ArrayDataType(children[k]))]),
                children, bitmap)

\* a ListArray of n rows over a child of m values: the rows but the last end
\* at `cut`
SampleList(child, n, cut, bitmap) ==
    ListArray(bitmap,
              [k \in 1..(n + 1) |->
                  IF k = 1 THEN 0 ELSE IF k = n + 1 THEN ArrayLen(child) ELSE cut],
              child)

InitToArray ==
    /\ debug_build \in BOOLEAN
    /\ stack = <<>>
    /\ pc = "start"
    /\ encoded = NotRun
    /\ decoded = NotRun
    /\ \/ \E t \in 1..Len(ColumnKinds), n \in 0..MaxRows, shift \in 0..MaxPick :
             LET array == ShiftedArray(ColumnKinds[t].ty, n, shift)
             IN  /\ ~IsSome(ColumnKinds[t].target)
                 /\ input = [array |-> array, field |-> NaturalField(array)]
       \/ \E p \in 1..Len(CastPairs), n \in 0..MaxRows, shift \in 0..MaxPick :
             input = [array |-> ShiftedArray(CastPairs[p].ty, n, shift),
                      field |-> Field("c", CastPairs[p].target, TRUE)]
       \/ \E n \in 0..MaxRows, shift \in 0..MaxPick, c1 \in 1..Len(ChildTypes),
             c2 \in 0..Len(ChildTypes) :
             \E bitmap \in [1..n -> BOOLEAN] :
                 LET first == ShiftedArray(ChildTypes[c1], n, shift)
                     children == IF c2 = 0 THEN <<first>>
                                 ELSE <<first, ShiftedArray(ChildTypes[c2], n, shift + 1)>>
                     array == SampleStruct(children, bitmap)
                 IN  input = [array |-> array, field |-> NaturalField(array)]
       \/ \E m \in ListChildLens, n \in 0..MaxRows, c \in 1..Len(ChildTypes),
             widen \in BOOLEAN :
             \E cut \in 0..m, bitmap \in [1..n -> BOOLEAN] :
                 LET array == SampleList(ShiftedArray(ChildTypes[c], m, 0), n, cut, bitmap)
                 IN  /\ n = 0 => m = 0
                     /\ n <= 1 => cut = 0
                     /\ widen => ChildTypes[c] = "Int32"
                     /\ input = [array |-> array,
                                 field |-> IF widen
                                           THEN Field("c", ArrowList(Field("item",
                                                         ArrowType("Int64"), TRUE)), TRUE)
                                           ELSE NaturalField(array)]

\* to_array(field.data_type(), &array)
ToArray ==
    /\ pc = "start"
    /\ encoded' = to_array(input.field.data_type, input.array)
    /\ pc' = "encoded"
    /\ UNCHANGED <<debug_build, input, decoded, stack>>

\* from_array(&field, &array) on the array just produced
FromArrayBack ==
    /\ pc = "encoded"
    /\ IsOk(encoded)
    /\ decoded' = from_array(input.field, encoded.val)
    /\ pc' = "decoded"
    /\ UNCHANGED <<debug_build, input, encoded, stack>>

NextToArray == ToArray \/ FromArrayBack

SpecToArray == InitToArray /\ [][NextToArray]_vars

\* the array is encoded under the field to_arrow_field derives for its type
NaturalTarget == input.field = NaturalField(input.array)

\* C12: struct_to_arrow attaches the bitmap of the StructArray as it is, next
\* to the children each encoded on its own, and from_struct_array rebuilds the
\* bitmap and every child separately: a StructArray round-trips with the same
\* top-level nulls and the same value and validity of every child at every
\* row, also where the top-level slot is null and the children are not, or the
\* slot is valid and a child is null.
C12_StructIndependence ==
    (input.array.ty = "Struct" /\ NaturalTarget) =>
        /\ pc # "start" =>
              /\ IsOk(encoded)
              /\ encoded.val.nulls = Some(input.array.bitmap)
              /\ \A k \in 1..Len(input.array.children) :
                    Ok(encoded.val.columns[k])
                        = to_array(input.field.data_type.fields[k].data_type,
                                   input.array.children[k])
        /\ pc = "decoded" =>
              /\ IsOk(decoded)
              /\ decoded.val.bitmap = input.array.bitmap
              /\ decoded.val.type_ = input.array.type_
              /\ \A k \in 1..Len(input.array.children) :
                    /\ decoded.val.children[k].ty = input.array.children[k].ty
                    /\ decoded.val.children[k].data = input.array.children[k].data

C12_Witness ==
    /\ pc = "decoded"
    /\ input.array.ty = "Struct"
    /\ NaturalTarget
    /\ input.array.bitmap = <<FALSE, TRUE>>
    /\ Len(input.array.children) = 2
    /\ input.array.children[1].ty = "Int32"
    /\ input.array.children[1].data = <<Some(25), None>>
    /\ input.array.children[2].ty = "Decimal"
    /\ IsOk(decoded)
    /\ decoded.val.bitmap = <<FALSE, TRUE>>
    /\ decoded.val.children[1].data = <<Some(25), None>>

\* C13: when the array produced for a column is not of the target type,
\* to_array casts it: whatever it returns Ok is an array of the target type and
\* of the length of the input, a Float64 array under a Float32 target is
\* converted, and a primitive array under a struct target is a cast error.
C13_CastToTargetType ==
    pc # "start" =>
        /\ IsOk(encoded) =>
              /\ encoded.val.data_type = input.field.data_type
              /\ ArrowLen(encoded.val) = ArrayLen(input.array)
        /\ (input.array.ty = "Float64" /\ input.field.data_type = ArrowType("Float32")) =>
              /\ IsOk(encoded)
              /\ SameNulls(input.array.data, encoded.val.data)
        /\ (input.array.ty \notin {"List", "Struct"}
               /\ input.field.data_type.id = "Struct") =>
              encoded = Err("cast")

C13_Witness ==
    /\ pc = "encoded"
    /\ input.array.ty = "Float64"
    /\ input.array.data = <<Some([float |-> 25]), None>>
    /\ input.field.data_type = ArrowType("Float32")
    /\ IsOk(encoded)
    /\ encoded.val.data_type = ArrowType("Float32")
    /\ encoded.val.data = <<Some(25), None>>

\* an incompatible target: a primitive array under a struct target
C13_WitnessCastError ==
    /\ pc = "encoded"
    /\ input.array.ty = "Int32"
    /\ Len(input.array.data) = 2
    /\ input.field.data_type.id = "Struct"
    /\ encoded = Err("cast")

\* the ListArray to encode has an offset that the signed offsets of the Arrow
\* list cannot hold
OffsetOverflows ==
    /\ input.array.ty = "List"
    /\ \E k \in 1..Len(input.array.offsets) : input.array.offsets[k] > I32_MAX

\* C14: when an offset of the ListArray does not fit the signed 32-bit offsets
\* of the Arrow list, list_to_arrow returns an error; the offset is not wrapped
\* into the output and the call does not panic.
C14_ListOffsetOverflowRejected ==
    (pc # "start" /\ OffsetOverflows) => IsErr(encoded)

\* without such an offset the list is encoded with its offsets as they are
C14_HoldsWithoutOverflow ==
    (pc # "start" /\ input.array.ty = "List" /\ ~OffsetOverflows) =>
        /\ IsOk(encoded)
        /\ encoded.val.offsets = input.array.offsets

\* a field on the way of the decoder carries the extension name of Decimal or
\* Jsonb over a physical type that is not Utf8; the decoder does not look
\* below a field that has an extension name
RECURSIVE CarrierMismatch(_)
CarrierMismatch(field) ==
    IF IsSome(field.ext)
    THEN field.ext[1] \in {"arrowudf.decimal", "arrowudf.json"}
            /\ field.data_type.id # "Utf8"
    ELSE /\ field.data_type.id \in {"List", "Struct"}
         /\ \E k \in 1..Len(field.data_type.fields) :
               CarrierMismatch(field.data_type.fields[k])

\* C15: when a field has the extension name of Decimal or Jsonb and the array
\* paired with it is not a Utf8 string array, from_array returns an error, at
\* the top and at every depth inside List and Struct; it does not panic and
\* does not decode the array.
C15_CarrierMismatchIsError ==
    (pc = "decoded" /\ decoded.call = "from_array" /\ CarrierMismatch(encoded.val)) =>
        /\ IsErr(decoded.ret)
        /\ IsSome(encoded.val.ext) => decoded.ret = Err("expected string array")

C15_Witness ==
    /\ pc = "decoded"
    /\ decoded.call = "from_array"
    /\ ~IsSome(encoded.val.ext)
    /\ PhysicalType.id = "List"
    /\ PhysicalType.fields[1].data_type.id = "Struct"
    /\ CarrierMismatch(encoded.val)
    /\ IsErr(decoded.ret)

\* the mismatch at the top: the name of Decimal over a large-offset string array
C15_WitnessTopLevel ==
    /\ Tagged
    /\ Tag = "arrowudf.decimal"
    /\ PhysicalType = ArrowType("LargeUtf8")
    /\ decoded.call = "from_array"
    /\ Len(input.array.data) = 2
    /\ decoded.ret = Err("expected string array")

\* the arm of the match in to_array for an array of a flat type:
\* bool_to_arrow ... serial_to_arrow, before the comparison of the types
PerTypeEncoder(array) ==
    CASE array.ty = "Bool" -> converts_to_arrow(ConvertsPair("Bool", "Boolean"), array)
      [] array.ty = "Int16" -> converts_to_arrow(ConvertsPair("Int16", "Int16"), array)
      [] array.ty = "Int32" -> converts_to_arrow(ConvertsPair("Int32", "Int32"), array)
      [] array.ty = "Int64" -> converts_to_arrow(ConvertsPair("Int64", "Int64"), array)
      [] array.ty = "Int256" -> Ok(Int256Array_to_Decimal256Array(array))
      [] array.ty = "Float32" -> converts_to_arrow(ConvertsPair("Float32", "Float32"), array)
      [] array.ty = "Float64" -> converts_to_arrow(ConvertsPair("Float64", "Float64"), array)
      [] array.ty = "Date" -> converts_to_arrow(ConvertsPair("Date", "Date32"), array)
      [] array.ty = "Time" -> converts_to_arrow(ConvertsPair("Time", "Time64"), array)
      [] array.ty = "Timestamp" ->
            converts_to_arrow(ConvertsPair("Timestamp", "Timestamp"), array)
      [] array.ty = "Timestamptz" -> timestamptz_to_arrow(array)
      [] array.ty = "Interval" -> converts_to_arrow(ConvertsPair("Interval", "Interval"), array)
      [] array.ty = "Utf8" -> converts_to_arrow(ConvertsPair("Utf8", "Utf8"), array)
      [] array.ty = "Bytea" -> converts_to_arrow(ConvertsPair("Bytea", "Binary"), array)
      [] array.ty = "Decimal" -> Ok(DecimalArray_to_StringArray(array))
      [] array.ty = "Jsonb" -> Ok(JsonbArray_to_string_array(ArrowType("Utf8"), array))
      [] array.ty = "Serial" -> converts_to_arrow(ConvertsPair("Serial", "Int64"), array)

\* the array is of a flat type and is encoded under the type to_arrow_field
\* derives for it
FlatNatural == input.array.ty \notin {"List", "Struct"} /\ NaturalTarget

\* C25: for every logical type, the array the per-type encoder produces has
\* the physical type to_arrow_field assigns to the type, so under the derived
\* type to_array returns that array as it is, without a cast.
C25_NaturalSchemaNoCoercion ==
    (pc # "start" /\ FlatNatural /\ IsOk(PerTypeEncoder(input.array))) =>
        /\ PerTypeEncoder(input.array).val.data_type = input.field.data_type
        /\ encoded = PerTypeEncoder(input.array)

\* C25, as far as it holds: for every type but Int256
C25_HoldsExceptInt256 ==
    (pc # "start" /\ FlatNatural /\ input.array.ty # "Int256"
        /\ IsOk(PerTypeEncoder(input.array))) =>
        /\ PerTypeEncoder(input.array).val.data_type = input.field.data_type
        /\ encoded = PerTypeEncoder(input.array)

-----------------------------------------------------------------------------
(* SpecDecode: a given RecordBatch through from_record_batch *)

\* the kinds of column of the given batches: the physical types without an
\* extension name, string and integer columns with one, a list and a struct
DecodeKinds ==
    [t \in 1..Len(PhysicalTypes) |->
        [shape |-> "flat", field |-> Field("c", PhysicalTypes[t], TRUE)]]
    \o << [shape |-> "flat",
           field |-> WithExtension(Field("c", ArrowType("Utf8"), TRUE), "arrowudf.decimal")],
          [shape |-> "flat",
           field |-> WithExtension(Field("c", ArrowType("Utf8"), TRUE), "arrowudf.json")],
          [shape |-> "flat",
           field |-> WithExtension(Field("c", ArrowType("Utf8"), TRUE), "arrowudf.unknown")],
          [shape |-> "flat",
           field |-> WithExtension(Field("c", ArrowType("Int32"), TRUE), "arrowudf.decimal")],
          [shape |-> "edge", field |-> Field("c", ArrowTime64("us"), TRUE)],
          [shape |-> "edge", field |-> Field("c", ArrowTimestamp("us", None), TRUE)],
          [shape |-> "list",
           field |-> Field("c", ArrowList(Field("item", ArrowType("Int32"), TRUE)), TRUE)],
          [shape |-> "struct",
           field |-> Field("c", ArrowStruct(<<Field("a", ArrowType("Int32"), TRUE),
                                              WithExtension(Field("d", ArrowType("Utf8"), TRUE),
                                                            "arrowudf.decimal")>>), TRUE)] >>

\* microsecond counts of a Time64 or Timestamp column off the usual range:
\* the microsecond before midnight / the epoch, and one second before it
EdgeMicros == <<-1, -MICROS_PER_SEC>>

\* the kind of column j of a batch whose first column is of kind `start`
DecodeKindAt(start, j) == DecodeKinds[((start + j - 2) % Len(DecodeKinds)) + 1]

\* the Arrow array of a flat type of n rows whose row r holds sample
\* r + shift, counted round the samples of the type with 0 for null
ShiftedArrow(data_type, n, shift) ==
    ArrowArray(data_type,
               [r \in 1..n |->
                   LET i == (r + shift) % (Len(ArrowSamples(data_type)) + 1)
                   IN  IF i = 0 THEN None ELSE Some(ArrowSamples(data_type)[i])])

\* a column of n rows of the given kind: a list column has one item per row,
\* a struct column is null at the odd rows
DecodeColumn(kind, n, shift) ==
    CASE kind.shape = "flat" -> ShiftedArrow(kind.field.data_type, n, shift)
      [] kind.shape = "edge" ->
            ArrowArray(kind.field.data_type,
                       [r \in 1..n |->
                           LET i == (r + shift) % (Len(EdgeMicros) + 1)
                           IN  IF i = 0 THEN None ELSE Some(EdgeMicros[i])])
      [] kind.shape = "list" ->
            ArrowListArray(kind.field.data_type.fields[1], [k \in 1..(n + 1) |-> k - 1],
                           ShiftedArrow(ArrowType("Int32"), n, shift), None)
      [] kind.shape = "struct" ->
            ArrowStructArray(kind.field.data_type.fields,
                             <<ShiftedArrow(ArrowType("Int32"), n, shift),
                               ShiftedArrow(ArrowType("Utf8"), n, shift)>>,
                             Some([r \in 1..n |-> r % 2 = 0]), n)

InitDecode ==
    /\ debug_build \in BOOLEAN
    /\ stack = <<>>
    /\ pc = "encoded"
    /\ decoded = NotRun
    /\ \E start \in 1..Len(DecodeKinds), ncols \in 0..MaxCols, n \in 0..MaxRows,
          shift \in 0..MaxPick :
          LET batch == RecordBatch([j \in 1..ncols |-> DecodeKindAt(start, j).field],
                                   [j \in 1..ncols |->
                                       DecodeColumn(DecodeKindAt(start, j), n, shift + j - 1)],
                                   n)
          IN  /\ input = [batch |-> batch]
              /\ encoded = Ok(batch)

\* from_record_batch(&batch) on the given batch
DecodeBatch ==
    /\ pc = "encoded"
    /\ "batch" \in DOMAIN input
    /\ decoded' = from_record_batch(encoded.val)
    /\ pc' = "decoded"
    /\ UNCHANGED <<debug_build, input, encoded, stack>>

NextDecode == DecodeBatch

SpecDecode == InitDecode /\ [][NextDecode]_vars

\* C16: when from_record_batch returns Ok for a batch of c columns and n rows,
\* the chunk has c columns, column j decoded from column j of the batch, each
\* of n rows, and n rows none of which is hidden.
C16_DecodePreservesShape ==
    (pc = "decoded" /\ IsOk(decoded)) =>
        LET batch == input.batch
            chunk == decoded.val
        IN  /\ Len(chunk.columns) = Len(batch.columns)
            /\ \A j \in 1..Len(batch.columns) :
                  /\ Ok(chunk.columns[j]) = from_array(batch.schema[j], batch.columns[j])
                  /\ ArrayLen(chunk.columns[j]) = batch.num_rows
            /\ capacity(chunk) = batch.num_rows
            /\ is_compacted(chunk)

C16_Witness ==
    /\ pc = "decoded"
    /\ IsOk(decoded)
    /\ input.batch.num_rows = 2
    /\ Len(input.batch.columns) = 2
    /\ input.batch.schema[1].data_type.id = "Struct"
    /\ input.batch.schema[2].data_type.id = "Boolean"
    /\ Len(decoded.val.columns) = 2
    /\ decoded.val.columns[1].ty = "Struct"
    /\ decoded.val.columns[1].bitmap = <<FALSE, TRUE>>
    /\ decoded.val.columns[2].ty = "Bool"
    /\ decoded.val.visibility = <<TRUE, TRUE>>

\* the batch holds a Time64 or Timestamp column with a negative count
HasNegativeTime ==
    \E j \in 1..Len(input.batch.columns) :
        LET column == input.batch.columns[j]
        IN  /\ column.data_type.id \in {"Time64", "Timestamp"}
            /\ \E r \in 1..Len(column.data) :
                   /\ IsSome(column.data[r])
                   /\ column.data[r][1] < 0

\* C21: for every well-formed batch, whatever values its arrays hold,
\* from_record_batch returns Ok or an error and never panics.
C21_DecodeNeverPanics ==
    pc = "decoded" => (IsOk(decoded) \/ IsErr(decoded))

\* C21, as far as it holds: the batches without a negative Time64 or
\* Timestamp count decode to Ok or to an error.
C21_HoldsWithoutNegativeTimes ==
    (pc = "decoded" /\ ~HasNegativeTime) => (IsOk(decoded) \/ IsErr(decoded))

-----------------------------------------------------------------------------
(* The type mapping in both directions *)

\* C17: for every data type t, nested List and Struct included, to_arrow_field
\* succeeds and from_field gives t back from the field, a Struct with its field
\* names in order; no two distinct scalar types are given the same field.
C17_TypeMappingBijective ==
    input.origin = "type" =>
        /\ pc # "start" =>
              /\ IsOk(encoded)
              /\ \A t \in 1..Len(ScalarDataTypes) :
                    DataType(ScalarDataTypes[t]) # input.ty
                        => to_arrow_field(input.name, DataType(ScalarDataTypes[t])) # encoded
        /\ pc = "decoded" => decoded.ret = Ok(input.ty)

\* the type is Serial or has Serial inside
RECURSIVE HasSerial(_)
HasSerial(ty) ==
    CASE ty.t = "Serial" -> TRUE
      [] ty.t = "List" -> HasSerial(ty.args[1])
      [] ty.t = "Struct" -> \E k \in 1..Len(ty.args) : HasSerial(ty.args[k].ty)
      [] OTHER -> FALSE

\* the same for the types without Serial, and for the scalar types apart from
\* the pair Serial and Int64
C17_HoldsWithoutSerial ==
    (input.origin = "type" /\ ~HasSerial(input.ty)) =>
        /\ pc # "start" =>
              /\ IsOk(encoded)
              /\ \A t \in 1..Len(ScalarDataTypes) :
                    (DataType(ScalarDataTypes[t]) # input.ty
                       /\ {ScalarDataTypes[t], input.ty.t} # {"Serial", "Int64"})
                        => to_arrow_field(input.name, DataType(ScalarDataTypes[t])) # encoded
        /\ pc = "decoded" => decoded.ret = Ok(input.ty)

\* a field that from_field maps by itself: one with an extension name, or of
\* a type that is neither List nor Struct
IsLeaf(field) == IsSome(field.ext) \/ field.data_type.id \notin {"List", "Struct"}

\* some leaf of the field has no mapping: an unsupported physical type or an
\* extension name (with its carrier) that is not recognised
RECURSIVE HasUnmappedLeaf(_)
HasUnmappedLeaf(field) ==
    IF IsLeaf(field) THEN ~IsOk(from_field(field))
    ELSE \E k \in 1..Len(field.data_type.fields) :
            HasUnmappedLeaf(field.data_type.fields[k])

\* the data type has the shape of the field: a List over the item, a Struct
\* over the same fields by name and in order, a leaf mapped by itself
RECURSIVE SameShape(_, _)
SameShape(field, ty) ==
    IF IsLeaf(field) THEN Ok(ty) = from_field(field)
    ELSE IF field.data_type.id = "List"
    THEN /\ ty.t = "List"
         /\ SameShape(field.data_type.fields[1], ty.args[1])
    ELSE /\ ty.t = "Struct"
         /\ Len(ty.args) = Len(field.data_type.fields)
         /\ \A k \in 1..Len(ty.args) :
               /\ ty.args[k].name = field.data_type.fields[k].name
               /\ SameShape(field.data_type.fields[k], ty.args[k].ty)

\* C18: from_field on a List or Struct field returns an error exactly when a
\* field nested at some depth has an unsupported physical type or an
\* unrecognised extension name; when it returns Ok, the type has every nested
\* field in its place, none dropped or replaced.
C18_NestedErrorsPropagate ==
    (pc = "decoded" /\ decoded.call = "from_field" /\ ~IsLeaf(encoded.val)) =>
        /\ IsErr(decoded.ret) <=> HasUnmappedLeaf(encoded.val)
        /\ IsOk(decoded.ret) <=> ~HasUnmappedLeaf(encoded.val)
        /\ IsOk(decoded.ret) => SameShape(encoded.val, decoded.ret.val)

C18_Witness ==
    /\ pc = "decoded"
    /\ decoded.call = "from_field"
    /\ input.origin = "arrow"
    /\ PhysicalType.id = "Struct"
    /\ Len(PhysicalType.fields) = 2
    /\ PhysicalType.fields[2].data_type.id = "List"
    /\ PhysicalType.fields[2].data_type.fields[1].data_type.id = "Int8"
    /\ ~IsSome(encoded.val.ext)
    /\ decoded.ret = Err("unsupported arrow data type")

\* a Struct whose nested fields all map, two levels down
C18_WitnessOk ==
    /\ pc = "decoded"
    /\ decoded.call = "from_field"
    /\ input.origin = "arrow"
    /\ ~IsSome(encoded.val.ext)
    /\ decoded.ret = Ok(DataTypeStruct(<<StructField("item", DataType("Int32")),
                                         StructField("l", DataTypeList(DataType("Decimal")))>>))

-----------------------------------------------------------------------------
(* The large-offset string and binary types *)

\* the field is of a large-offset type or has one inside
RECURSIVE HasLargeOffset(_)
HasLargeOffset(field) ==
    \/ field.data_type.id \in {"LargeUtf8", "LargeBinary"}
    \/ /\ field.data_type.id \in {"List", "Struct"}
       /\ \E k \in 1..Len(field.data_type.fields) :
             HasLargeOffset(field.data_type.fields[k])

\* the normal-offset type of a large-offset type
NormalOffset(data_type) ==
    IF data_type.id = "LargeUtf8" THEN ArrowType("Utf8") ELSE ArrowType("Binary")

\* C19: a large-offset string field or array without an extension name decodes
\* to Varchar, a large-offset binary one to Bytea, with the values and nulls
\* that the normal-offset array of the same slots decodes to; to_arrow_field
\* gives no data type a large-offset field, and to_array under the derived
\* type gives a Utf8Array a Utf8 array and a BytesArray a Binary array.
C19_LargeOffsetAliases ==
    /\ (pc = "decoded" /\ ~IsSome(encoded.val.ext)
          /\ PhysicalType.id \in {"LargeUtf8", "LargeBinary"}) =>
          LET ty == IF PhysicalType.id = "LargeUtf8" THEN "Utf8" ELSE "Bytea"
          IN  IF decoded.call = "from_field"
              THEN decoded.ret = Ok(ArrayDataType(Array(ty, <<>>)))
              ELSE /\ decoded.ret = Ok(Array(ty, input.array.data))
                   /\ decoded.ret
                          = from_array(Field("c", NormalOffset(PhysicalType), TRUE),
                                       ArrowArray(NormalOffset(PhysicalType),
                                                  input.array.data))
    /\ (pc # "start" /\ input.origin = "type") =>
          /\ IsOk(encoded)
          /\ ~HasLargeOffset(encoded.val)
          /\ input.ty.t = "Varchar" =>
                \A n \in 0..MaxRows :
                    LET r == to_array(encoded.val.data_type, ShiftedArray("Utf8", n, 0))
                    IN  IsOk(r) /\ r.val.data_type = ArrowType("Utf8")
          /\ input.ty.t = "Bytea" =>
                \A n \in 0..MaxRows :
                    LET r == to_array(encoded.val.data_type, ShiftedArray("Bytea", n, 0))
                    IN  IsOk(r) /\ r.val.data_type = ArrowType("Binary")

C19_Witness ==
    /\ pc = "decoded"
    /\ decoded.call = "from_array"
    /\ ~IsSome(encoded.val.ext)
    /\ PhysicalType = ArrowType("LargeUtf8")
    /\ input.array.data = <<Some(<<"a", "b">>), None>>
    /\ decoded.ret = Ok(Array("Utf8", <<Some(<<"a", "b">>), None>>))

C19_WitnessBinary ==
    /\ pc = "decoded"
    /\ decoded.call = "from_array"
    /\ ~IsSome(encoded.val.ext)
    /\ PhysicalType = ArrowType("LargeBinary")
    /\ input.array.data = <<None, Some(<<"a", "r">>)>>
    /\ decoded.ret = Ok(Array("Bytea", <<None, Some(<<"a", "r">>)>>))

\* the field, or a field nested in it, is a 128-bit decimal or a timestamp
\* with a zone annotation, without an extension name
RECURSIVE HasDecimal128OrZone(_)
HasDecimal128OrZone(field) ==
    /\ ~IsSome(extension_name(field))
    /\ \/ field.data_type.id = "Decimal128"
       \/ field.data_type.id = "Timestamp" /\ IsSome(field.data_type.tz)
       \/ \E k \in 1..Len(field.data_type.fields) :
              HasDecimal128OrZone(field.data_type.fields[k])

\* C26: for a field and an array of the field's physical type, from_array
\* succeeds exactly when from_field does, and the decoded array is of the
\* type from_field gives.
C26_TypeAndArrayDecodingAgree ==
    (pc = "decoded" /\ input.origin = "arrow" /\ decoded.call = "from_array") =>
        /\ IsOk(decoded.ret) <=> IsOk(from_field(encoded.val))
        /\ IsOk(decoded.ret) =>
               from_field(encoded.val) = Ok(ArrayDataType(decoded.ret.val))

\* C26, as far as it holds: without a 128-bit decimal or a zoned timestamp in
\* the field, an array that decodes is of the type from_field gives, and no
\* array decodes under a field from_field rejects.
C26_HoldsWhereDecoded ==
    (pc = "decoded" /\ input.origin = "arrow" /\ decoded.call = "from_array"
        /\ ~HasDecimal128OrZone(encoded.val)) =>
        /\ IsOk(decoded.ret) =>
               from_field(encoded.val) = Ok(ArrayDataType(decoded.ret.val))
        /\ IsErr(from_field(encoded.val)) => IsErr(decoded.ret)

-----------------------------------------------------------------------------
(* SpecBatch: the chunks of Spec and chunks with nested columns through      *)
(* to_record_batch and from_record_batch, and the given batches of           *)
(* SpecDecode through from_record_batch                                      *)

\* the targets of a struct column of an Int32 and a Utf8 child: the derived
\* type, one that widens the first child, two under which a child has no
\* cast, and one that is no struct type
StructTargets ==
    << ArrowStruct(<<Field("a", ArrowType("Int32"), TRUE), Field("b", ArrowType("Utf8"), TRUE)>>),
       ArrowStruct(<<Field("a", ArrowType("Int64"), TRUE), Field("b", ArrowType("Utf8"), TRUE)>>),
       ArrowStruct(<<Field("a", ArrowType("Int32"), TRUE),
                     Field("b", ArrowStruct(<<>>), TRUE)>>),
       ArrowStruct(<<Field("a", ArrowStruct(<<>>), TRUE), Field("b", ArrowType("Utf8"), TRUE)>>),
       ArrowType("Int32") >>

\* the targets of a list column of Int32 items: the derived type, a wider
\* item, an item without a cast, and one that is no list type
ListTargets ==
    << ArrowList(Field("item", ArrowType("Int32"), TRUE)),
       ArrowList(Field("item", ArrowType("Int64"), TRUE)),
       ArrowList(Field("item", ArrowStruct(<<>>), TRUE)),
       ArrowType("Int32") >>

\* chunks without a mask of a struct column, a list column and an Int32 column
InitNestedChunk ==
    /\ debug_build \in BOOLEAN
    /\ stack = <<>>
    /\ pc = "start"
    /\ encoded = NotRun
    /\ decoded = NotRun
    /\ \E n \in 0..MaxRows, shift \in 0..MaxPick, s \in 1..Len(StructTargets),
          l \in 1..Len(ListTargets), ncols \in 1..3 :
          \E bitmap \in [1..n -> BOOLEAN] :
              LET struct == SampleStruct(<<ShiftedArray("Int32", n, shift),
                                           ShiftedArray("Utf8", n, shift + 1)>>, bitmap)
                  list == ListArray(bitmap, [k \in 1..(n + 1) |-> k - 1],
                                    ShiftedArray("Int32", n, shift))
                  flat == ShiftedArray("Int32", n, shift + 2)
                  columns == <<struct, list, flat>>
                  schema == <<Field("s", StructTargets[s], TRUE),
                              Field("l", ListTargets[l], TRUE),
                              Field("c", ArrowType("Int32"), TRUE)>>
              IN  /\ ncols < 2 => l = 1
                  /\ input = [schema |-> SubSeq(schema, 1, ncols),
                              chunk |-> DataChunk_new(SubSeq(columns, 1, ncols), n)]

InitBatch == Init \/ InitNestedChunk \/ InitDecode

NextBatch == ToRecordBatch \/ FromRecordBatch \/ DecodeBatch

SpecBatch == InitBatch /\ [][NextBatch]_vars

\* the call was given a chunk to encode / a batch to decode
GivenChunk == "chunk" \in DOMAIN input
GivenBatch == "batch" \in DOMAIN input

\* C20: when the conversion of a column, or of a nested child of it, fails,
\* to_record_batch and from_record_batch fail as a whole: an error of a column
\* that was converted, those before it having converted, is an error of the
\* call, and no call is Ok when a column is not; what either returns Ok has
\* every column of the input, in order, each converted and all of one length.
C20_AllOrNothing ==
    /\ (GivenChunk /\ pc # "start") =>
          LET chunk == IF is_compacted(input.chunk) THEN input.chunk
                       ELSE compact(input.chunk)
              results == [j \in 1..Len(chunk.columns) |->
                             to_array(input.schema[j].data_type, chunk.columns[j])]
          IN  /\ (\E j \in 1..Len(results) : ~IsOk(results[j])) => ~IsOk(encoded)
              /\ (\E j \in 1..Len(results) :
                      /\ IsErr(results[j])
                      /\ \A k \in 1..(j - 1) : IsOk(results[k])) => IsErr(encoded)
              /\ IsOk(encoded) =>
                    /\ Len(encoded.val.columns) = Len(input.chunk.columns)
                    /\ \A j \in 1..Len(results) :
                          /\ Ok(encoded.val.columns[j]) = results[j]
                          /\ ArrowLen(encoded.val.columns[j]) = encoded.val.num_rows
    /\ (GivenBatch /\ pc = "decoded") =>
          LET batch == input.batch
              results == [j \in 1..Len(batch.columns) |->
                             from_array(batch.schema[j], batch.columns[j])]
          IN  /\ (\E j \in 1..Len(results) : ~IsOk(results[j])) => ~IsOk(decoded)
              /\ (\E j \in 1..Len(results) :
                      /\ IsErr(results[j])
                      /\ \A k \in 1..(j - 1) : IsOk(results[k])) => IsErr(decoded)
              /\ IsOk(decoded) =>
                    /\ Len(decoded.val.columns) = Len(batch.columns)
                    /\ \A j \in 1..Len(results) :
                          /\ Ok(decoded.val.columns[j]) = results[j]
                          /\ ArrayLen(decoded.val.columns[j]) = capacity(decoded.val)

\* a nested child of the first column has no cast to its target
C20_Witness ==
    /\ GivenChunk
    /\ pc = "encoded"
    /\ Len(input.chunk.columns) = 3
    /\ capacity(input.chunk) = 2
    /\ input.chunk.columns[1].ty = "Struct"
    /\ input.schema[1].data_type = StructTargets[3]
    /\ input.schema[2].data_type = ListTargets[1]
    /\ IsOk(to_array(input.schema[2].data_type, input.chunk.columns[2]))
    /\ encoded = Err("cast")

\* a nested child of the second column of a given batch does not parse
C20_WitnessDecode ==
    /\ GivenBatch
    /\ pc = "decoded"
    /\ Len(input.batch.columns) = 2
    /\ input.batch.num_rows = 2
    /\ input.batch.schema[2].data_type.id = "Struct"
    /\ IsOk(from_array(input.batch.schema[1], input.batch.columns[1]))
    /\ decoded = Err("invalid decimal")

\* the results of the columns of the call, in column order
ColumnResults ==
    IF GivenChunk
    THEN LET chunk == IF is_compacted(input.chunk) THEN input.chunk
                      ELSE compact(input.chunk)
         IN  [j \in 1..Len(chunk.columns) |->
                 to_array(input.schema[j].data_type, chunk.columns[j])]
    ELSE [j \in 1..Len(input.batch.columns) |->
             from_array(input.batch.schema[j], input.batch.columns[j])]

\* the position of the first column that fails, 0 when every column converts
FirstFailing ==
    IF \A j \in 1..Len(ColumnResults) : IsOk(ColumnResults[j]) THEN 0
    ELSE CHOOSE j \in 1..Len(ColumnResults) :
             /\ ~IsOk(ColumnResults[j])
             /\ \A k \in 1..(j - 1) : IsOk(ColumnResults[k])

\* the outcome of the call
CallResult == IF GivenChunk THEN encoded ELSE decoded

CallDone == IF GivenChunk THEN pc # "start" ELSE pc = "decoded"

\* C27: when columns fail to convert, to_record_batch and from_record_batch
\* end with the outcome of the failing column of the smallest position: its
\* error is the one returned, whatever the columns after it would give.
C27_ErrorOrder ==
    (CallDone /\ FirstFailing > 0) => CallResult = ColumnResults[FirstFailing]

\* two columns of a batch fail with different errors
C27_Witness ==
    /\ GivenBatch
    /\ pc = "decoded"
    /\ Len(ColumnResults) = 2
    /\ ColumnResults[1] = Err("unsupported extension type")
    /\ ColumnResults[2] = Err("expected string array")
    /\ decoded = Err("unsupported extension type")

\* two columns of a chunk fail with different errors
C27_WitnessEncode ==
    /\ GivenChunk
    /\ pc = "encoded"
    /\ Len(ColumnResults) = 3
    /\ ColumnResults[1] = Err("cast")
    /\ ColumnResults[2] = Err("Invalid list type")
    /\ IsOk(ColumnResults[3])
    /\ encoded = Err("cast")

\* the column after the failing one would panic
C27_WitnessNotConverted ==
    /\ GivenBatch
    /\ pc = "decoded"
    /\ Len(ColumnResults) = 2
    /\ IsErr(ColumnResults[1])
    /\ ColumnResults[2] = Panic
    /\ decoded = ColumnResults[1]

-----------------------------------------------------------------------------
(* SpecEncode: to_record_batch step by step, with the chunk of every call in *)
(* progress on the stack                                                     *)

InitEncode == Init \/ InitNestedChunk

\* the caller's call: to_record_batch(schema, &chunk)
CallToRecordBatch ==
    /\ pc = "start"
    /\ stack' = <<input.chunk>>
    /\ pc' = "running"
    /\ UNCHANGED <<debug_build, input, encoded, decoded>>

\* if !chunk.is_compacted(): the call on the compacted clone
Recompact ==
    /\ pc = "running"
    /\ ~is_compacted(stack[Len(stack)])
    /\ Len(stack) < MaxDepth
    /\ stack' = Append(stack, compact(stack[Len(stack)]))
    /\ UNCHANGED <<debug_build, pc, input, encoded, decoded>>

\* the columns of a compacted chunk are converted and the batch is built
ConvertColumns ==
    /\ pc = "running"
    /\ is_compacted(stack[Len(stack)])
    /\ encoded' = to_record_batch(input.schema, stack[Len(stack)])
    /\ pc' = "returning"
    /\ UNCHANGED <<debug_build, input, decoded, stack>>

\* the innermost call hands its outcome to its caller
ReturnToCaller ==
    /\ pc = "returning"
    /\ stack' = SubSeq(stack, 1, Len(stack) - 1)
    /\ pc' = IF Len(stack) = 1 THEN "encoded" ELSE "returning"
    /\ UNCHANGED <<debug_build, input, encoded, decoded>>

NextEncode == CallToRecordBatch \/ Recompact \/ ConvertColumns \/ ReturnToCaller

\* the step of ConvertColumns as far as pc shows it
ConvertStep ==
    /\ pc = "running"
    /\ is_compacted(stack[Len(stack)])
    /\ pc' = "returning"

\* the code is sequential: a call in progress takes its next step
SpecEncode ==
    /\ InitEncode
    /\ [][NextEncode]_vars
    /\ WF_vars(CallToRecordBatch)
    /\ WF_vars(Recompact)
    /\ WF_pc(ConvertStep)
    /\ WF_vars(ReturnToCaller)

\* C29: to_record_batch re-enters itself at most once, on a chunk that reports
\* is_compacted, and for every chunk the call eventually returns Ok or an
\* error.
C29_EncodingTerminates ==
    /\ [](Len(stack) <= 2)
    /\ [](Len(stack) = 2 => is_compacted(stack[2]))
    /\ <>(pc = "encoded" /\ (IsOk(encoded) \/ IsErr(encoded)))

\* C29, as far as it holds: the nesting is as claimed and every call ends; it
\* ends with Ok or an error where overflow checks are off
C29_HoldsUpToPanics ==
    /\ [](Len(stack) <= 2)
    /\ [](Len(stack) = 2 => is_compacted(stack[2]))
    /\ <>(pc = "encoded")
    /\ []((pc = "encoded" /\ ~debug_build) => (IsOk(encoded) \/ IsErr(encoded)))

=============================================================================
